---- MODULE Spec2Model ----
(***************************************************************************)
(* A model of the flight/weather finalisation step of the pipeline,        *)
(* src/src/data_processing/final_data.py: the per-year merge tasks run on  *)
(* a thread pool, the driver that collects them, and the concatenation,    *)
(* rolling-average, split/encode and save stages that follow.              *)
(*                                                                         *)
(* Tables are sequences of records.  A numeric cell is either NULL (the    *)
(* empty tuple, pandas' NaN) or a reduced fraction <<n, d>>; a text cell   *)
(* is a string, NullStr being SQL NULL / None.                             *)
(***************************************************************************)
EXTENDS Integers, Sequences, FiniteSets, TLC

\* ------------------------------------------------------------------------
\* Bounds of the model
\* ------------------------------------------------------------------------
NumYears == 2
DaysPerYear == 2

\* ------------------------------------------------------------------------
\* Cells
\* ------------------------------------------------------------------------
NULL == <<>>
NullStr == "<null>"
Num(n) == <<n, 1>>
IsNull(c) == c = NULL

RECURSIVE GCD(_, _)
GCD(a, b) == IF b = 0 THEN a ELSE GCD(b, a % b)

\* the fraction n/d (n >= 0, d > 0) in lowest terms
Frac(n, d) == LET g == GCD(n, d) IN <<n \div g, d \div g>>

\* ------------------------------------------------------------------------
\* Configuration (final_data.py lines 23-29)
\* ------------------------------------------------------------------------
YEARS == 1..NumYears
Elements == {"PRCP", "SNOW", "SNWD", "TMAX", "TMIN"}
Airports == {"ATL", "JFK", "ORD"}
\* the order sort_values gives to the airport codes
AirportRank(a) == CASE a = "ATL" -> 1 [] a = "JFK" -> 2 [] a = "ORD" -> 3 [] OTHER -> 4

DaysOf(y) == {(y - 1) * DaysPerYear + d : d \in 1..DaysPerYear}

\* ------------------------------------------------------------------------
\* Input files: processed_flight_<year>.parquet, processed_noaa_<year>.parquet
\* ------------------------------------------------------------------------
Routes == <<
    [Origin |-> "ATL", Dest |-> "JFK", Airline |-> "DL"],
    [Origin |-> "ATL", Dest |-> "JFK", Airline |-> "AA"],
    [Origin |-> "JFK", Dest |-> "ATL", Airline |-> "DL"],
    [Origin |-> "ORD", Dest |-> "ATL", Airline |-> "UA"],
    [Origin |-> "JFK", Dest |-> "ATL", Airline |-> "AA"],
    [Origin |-> "ORD", Dest |-> "ORD", Airline |-> "UA"] >>

\* departure delay of the k-th flight of day d: a cancelled flight has none
DelayOf(k, d) ==
    IF k = 1 /\ d % 2 = 1 THEN NULL
    ELSE IF k = 2 THEN Num(30)
    ELSE IF k = 4 THEN (IF d % 2 = 0 THEN Num(10) ELSE Num(20))
    ELSE Num(0)

DepDel15Of(delay) ==
    IF IsNull(delay) THEN NULL ELSE IF delay[1] >= 15 THEN Num(1) ELSE Num(0)

FlightRowOf(y, d, k, pos) ==
    [Year |-> y, row |-> pos,
     Origin |-> Routes[k].Origin, Dest |-> Routes[k].Dest, Airline |-> Routes[k].Airline,
     FlightDate |-> d,
     DepDelayMinutes |-> DelayOf(k, d),
     DepDel15 |-> DepDel15Of(DelayOf(k, d))]

\* every route flown on every day of the year, day by day
FullFlightTable(y) ==
    [pos \in 1..(DaysPerYear * Len(Routes)) |->
        LET d == (y - 1) * DaysPerYear + ((pos - 1) \div Len(Routes)) + 1
            k == ((pos - 1) % Len(Routes)) + 1
        IN FlightRowOf(y, d, k, pos)]

\* the readings of station s on day d: ATL never reports TMAX, and JFK reports
\* no TMIN on odd days
ReadingOf(s, d) ==
    [e \in Elements |->
        CASE e = "TMIN" -> IF s = "JFK" /\ d % 2 = 1 THEN NULL ELSE Num(d)
          [] e = "TMAX" -> IF s = "ATL" THEN NULL ELSE Num(d + 10)
          [] e = "PRCP" -> Num(IF s = "JFK" THEN 1 ELSE 0)
          [] OTHER -> Num(0)]

WeatherRowOf(s, d) == [STATION |-> s, DATE |-> d, m |-> ReadingOf(s, d)]

RECURSIVE SeqOfSet(_)
SeqOfSet(S) ==
    IF S = {} THEN <<>>
    ELSE LET x == CHOOSE x \in S : TRUE IN <<x>> \o SeqOfSet(S \ {x})

\* one row per (station, day), as clean_noaa_file's pivot writes them
WeatherTableOf(stations, days) ==
    SeqOfSet({WeatherRowOf(s, d) : s \in stations, d \in days})

FirstDay(y) == (y - 1) * DaysPerYear + 1

WeatherTables(y) ==
    { WeatherTableOf({"ATL", "JFK"}, DaysOf(y)),     \* both stations, every day
      WeatherTableOf({"ATL"}, DaysOf(y)),            \* one station only
      WeatherTableOf({"ATL", "JFK"}, {FirstDay(y)}), \* first day only
      <<>> }                                         \* no observation at all

Missing == [exists |-> FALSE, rows |-> <<>>]
File(rows) == [exists |-> TRUE, rows |-> rows]

\* ------------------------------------------------------------------------
\* merge_flight_weather: the DuckDB query (final_data.py lines 133-155)
\* ------------------------------------------------------------------------
NullWeatherRow == [STATION |-> NullStr, DATE |-> 0, m |-> [e \in Elements |-> NULL]]

\* SQL equality: never true of a NULL
SqlEq(a, b) == a # NullStr /\ b # NullStr /\ a = b

RECURSIVE Flatten(_)
Flatten(ss) == IF ss = <<>> THEN <<>> ELSE Head(ss) \o Flatten(Tail(ss))

\* LEFT JOIN weather w_origin ON f.Origin = w_origin.STATION AND f.FlightDate = w_origin.DATE
LeftJoinOrigin(flights, weather) ==
    Flatten([i \in 1..Len(flights) |->
        LET ms == SelectSeq(weather, LAMBDA w :
                      SqlEq(flights[i].Origin, w.STATION) /\ flights[i].FlightDate = w.DATE)
        IN IF ms = <<>> THEN << [f |-> flights[i], w_origin |-> NullWeatherRow] >>
           ELSE [k \in 1..Len(ms) |-> [f |-> flights[i], w_origin |-> ms[k]]]])

\* LEFT JOIN weather w_dest ON f.Dest = w_dest.STATION AND f.FlightDate = w_dest.DATE
LeftJoinDest(joined, weather) ==
    Flatten([i \in 1..Len(joined) |->
        LET ms == SelectSeq(weather, LAMBDA w :
                      SqlEq(joined[i].f.Dest, w.STATION) /\ joined[i].f.FlightDate = w.DATE)
        IN IF ms = <<>>
           THEN << [f |-> joined[i].f, w_origin |-> joined[i].w_origin,
                    w_dest |-> NullWeatherRow] >>
           ELSE [k \in 1..Len(ms) |-> [f |-> joined[i].f, w_origin |-> joined[i].w_origin,
                                       w_dest |-> ms[k]]]])

WhereMutant(j) == j.w_origin.STATION # NullStr /\ j.w_dest.STATION # NullStr
\* WHERE w_origin.STATION IS NOT NULL OR w_dest.STATION IS NOT NULL
Where(j) == j.w_origin.STATION # NullStr \/ j.w_dest.STATION # NullStr

SelectMutant(j) == j.f @@ [Origin_ |-> j.w_dest.m, Dest_ |-> j.w_origin.m]

\* SELECT f.*, w_origin.<e> AS Origin_<e>, w_dest.<e> AS Dest_<e>
Select(j) == j.f @@ [Origin_ |-> j.w_origin.m, Dest_ |-> j.w_dest.m]

MergeQuery(flights, weather) ==
    LET joined == LeftJoinDest(LeftJoinOrigin(flights, weather), weather)
        kept == SelectSeq(joined, Where)
    IN [i \in 1..Len(kept) |-> Select(kept[i])]

Reverse(s) == [i \in 1..Len(s) |-> s[Len(s) + 1 - i]]

\* The query has no ORDER BY: the engine may return the rows of the result in
\* more than one order.  Two of them are modelled.
ResultOrders(rows) == {rows, Reverse(rows)}

\* ------------------------------------------------------------------------
\* pd.concat(merged_dataframes, ignore_index=True) (final_data.py line 207)
\* ------------------------------------------------------------------------
Concat(tables) ==
    LET all == Flatten(tables)
    IN [i \in 1..Len(all) |-> all[i] @@ [index |-> i - 1]]

\* ------------------------------------------------------------------------
\* add_rolling_averages, add_generic_rolling_averages (final_data.py 39-84)
\* ------------------------------------------------------------------------
WEEKLY == 7
MONTHLY == 30

\* the sort key of df.sort_values(['Origin', 'FlightDate'])
SortsBefore(a, b) ==
    \/ AirportRank(a.Origin) < AirportRank(b.Origin)
    \/ a.Origin = b.Origin /\ a.FlightDate < b.FlightDate

RECURSIVE InsertSorted(_, _)
InsertSorted(s, x) ==
    IF s = <<>> THEN <<x>>
    ELSE IF SortsBefore(x, Head(s)) THEN <<x>> \o s
    ELSE <<Head(s)>> \o InsertSorted(Tail(s), x)

RECURSIVE SortPrefix(_, _)
SortPrefix(df, n) == IF n = 0 THEN <<>> ELSE InsertSorted(SortPrefix(df, n - 1), df[n])

\* a sort on several columns is stable: rows with equal keys keep their order
SortValues(df) == SortPrefix(df, Len(df))

AddFrac(a, b) == Frac(a[1] * b[2] + b[1] * a[2], a[2] * b[2])

\* the sum and the number of the non-null values among the last `left` rows,
\* at or before position q, whose key is k
RECURSIVE WindowAcc(_, _, _, _, _)
WindowAcc(keys, vals, q, k, left) ==
    IF q = 0 \/ left = 0 THEN <<Num(0), 0>>
    ELSE IF keys[q] # k THEN WindowAcc(keys, vals, q - 1, k, left)
    ELSE LET r == WindowAcc(keys, vals, q - 1, k, left - 1)
         IN IF IsNull(vals[q]) THEN r ELSE <<AddFrac(r[1], vals[q]), r[2] + 1>>

\* groupby(key)[col].apply(lambda x: x.rolling(window, min_periods=1).mean())
RollingMean(keys, vals, window) ==
    [p \in 1..Len(vals) |->
        LET acc == WindowAcc(keys, vals, p, keys[p], window)
        IN IF acc[2] = 0 THEN NULL ELSE Frac(acc[1][1], acc[1][2] * acc[2])]

RECURSIVE Bfill(_)
Bfill(col) ==
    IF col = <<>> THEN <<>>
    ELSE LET rest == Bfill(Tail(col))
         IN IF ~IsNull(Head(col)) \/ rest = <<>> THEN <<Head(col)>> \o rest
            ELSE <<rest[1]>> \o rest

Ffill(col) == Reverse(Bfill(Reverse(col)))

\* the columns that can hold a null: single cells, and one cell per element
CellFields == {"DepDelayMinutes", "DepDel15",
               "weekly_avg_origin_depdelayminutes", "monthly_avg_origin_depdelayminutes"}
ElemFields == {"Origin_", "Dest_", "weekly_avg_origin", "monthly_avg_origin",
               "weekly_avg_dest", "monthly_avg_dest"}

\* the columns df.bfill / df.ffill act on: every column of the frame
FilledFields(fields) == fields

\* df.bfill(inplace=True); df.ffill(inplace=True)
FillFrame(df) ==
    IF df = <<>> THEN df
    ELSE LET fields == DOMAIN df[1]
             n == Len(df)
             cells == [f \in CellFields \cap FilledFields(fields) |->
                          Ffill(Bfill([i \in 1..n |-> df[i][f]]))]
             elems == [f \in ElemFields \cap FilledFields(fields) |->
                          [e \in Elements |-> Ffill(Bfill([i \in 1..n |-> df[i][f][e]]))]]
         IN [i \in 1..n |->
               [f \in fields |->
                   IF f \in DOMAIN cells THEN cells[f][i]
                   ELSE IF f \in DOMAIN elems THEN [e \in Elements |-> elems[f][e][i]]
                   ELSE df[i][f]]]

AddRollingAverages(df) ==
    LET s == SortValues(df)
        n == Len(s)
        okeys == [i \in 1..n |-> s[i].Origin]
        dkeys == [i \in 1..n |-> s[i].Dest]
        ro == [e \in Elements |-> [w \in {WEEKLY, MONTHLY} |->
                  RollingMean(okeys, [i \in 1..n |-> s[i].Origin_[e]], w)]]
        rd == [e \in Elements |-> [w \in {WEEKLY, MONTHLY} |->
                  RollingMean(dkeys, [i \in 1..n |-> s[i].Dest_[e]], w)]]
    IN FillFrame([i \in 1..n |->
          s[i] @@ [weekly_avg_origin |-> [e \in Elements |-> ro[e][WEEKLY][i]],
                   monthly_avg_origin |-> [e \in Elements |-> ro[e][MONTHLY][i]],
                   weekly_avg_dest |-> [e \in Elements |-> rd[e][WEEKLY][i]],
                   monthly_avg_dest |-> [e \in Elements |-> rd[e][MONTHLY][i]]]])

AddGenericRollingAverages(df) ==
    LET s == SortValues(df)
        n == Len(s)
        okeys == [i \in 1..n |-> s[i].Origin]
        delays == [i \in 1..n |-> s[i].DepDelayMinutes]
        r == [w \in {WEEKLY, MONTHLY} |-> RollingMean(okeys, delays, w)]
    IN FillFrame([i \in 1..n |->
          s[i] @@ [weekly_avg_origin_depdelayminutes |-> r[WEEKLY][i],
                   monthly_avg_origin_depdelayminutes |-> r[MONTHLY][i]]])

\* the rolling-averages step of the driver (final_data.py lines 216-217)
FeatureEngineer(df) == AddGenericRollingAverages(AddRollingAverages(df))

\* ------------------------------------------------------------------------
\* train_test_split_encoder (final_data.py lines 86-103)
\* ------------------------------------------------------------------------
\* RandomState(42).permutation(n), the order train_test_split shuffles n rows
\* into (positions from 0)
Perm42(n) ==
    CASE n = 0 -> <<>>
      [] n = 1 -> <<0>>
      [] n = 2 -> <<1, 0>>
      [] n = 3 -> <<0, 1, 2>>
      [] n = 4 -> <<1, 3, 0, 2>>
      [] n = 5 -> <<1, 4, 2, 0, 3>>
      [] n = 6 -> <<0, 1, 5, 2, 4, 3>>
      [] n = 7 -> <<0, 1, 5, 2, 4, 3, 6>>
      [] n = 8 -> <<1, 5, 0, 7, 2, 4, 3, 6>>
      [] n = 9 -> <<7, 1, 5, 0, 8, 2, 4, 3, 6>>
      [] n = 10 -> <<8, 1, 5, 0, 7, 2, 9, 4, 3, 6>>
      [] n = 11 -> <<5, 0, 9, 10, 2, 1, 8, 4, 7, 3, 6>>
      [] n = 12 -> <<10, 9, 0, 8, 5, 2, 1, 11, 4, 7, 3, 6>>
      [] n = 13 -> <<11, 9, 0, 8, 5, 2, 1, 12, 4, 7, 10, 3, 6>>
      [] n = 14 -> <<9, 11, 0, 12, 5, 8, 2, 1, 13, 4, 7, 10, 3, 6>>
      [] n = 15 -> <<9, 11, 0, 13, 5, 8, 2, 1, 14, 4, 7, 10, 12, 3, 6>>
      [] n = 16 -> <<0, 1, 5, 14, 13, 11, 8, 9, 2, 15, 4, 7, 10, 12, 3, 6>>
      [] n = 17 -> <<0, 1, 5, 15, 11, 14, 8, 13, 2, 9, 16, 4, 7, 10, 12, 3, 6>>
      [] n = 18 -> <<0, 1, 8, 5, 3, 13, 16, 15, 11, 2, 9, 17, 4, 12, 7, 10, 14, 6>>
      [] n = 19 -> <<0, 5, 11, 1, 8, 16, 3, 13, 15, 17, 2, 9, 18, 4, 12, 7, 10, 14, 6>>
      [] n = 20 -> <<0, 17, 15, 1, 8, 5, 11, 3, 18, 16, 13, 2, 9, 19, 4, 12, 7, 10, 14, 6>>
      [] n = 21 -> <<0, 17, 15, 1, 8, 5, 11, 3, 18, 16, 13, 2, 9, 20, 4, 12, 7, 10, 14, 19, 6>>
      [] n = 22 -> <<0, 13, 8, 1, 15, 5, 20, 11, 3, 4, 17, 12, 18, 16, 2, 9, 21, 7, 10, 14, 19, 6>>
      [] n = 23 -> <<15, 9, 0, 8, 17, 12, 1, 13, 5, 2, 11, 20, 3, 4, 18, 16, 21, 22, 7, 10, 14, 19, 6>>
      [] n = 24 -> <<8, 16, 0, 18, 11, 9, 13, 1, 21, 5, 2, 12, 15, 3, 4, 22, 17, 20, 23, 7, 10, 14, 19, 6>>
      [] n = 25 -> <<8, 16, 0, 23, 11, 9, 13, 1, 22, 5, 2, 12, 15, 3, 4, 20, 17, 21, 18, 24, 7, 10, 14, 19, 6>>
      [] n = 26 -> <<8, 16, 0, 24, 11, 9, 13, 1, 23, 5, 2, 12, 15, 3, 4, 21, 17, 22, 18, 25, 20, 7, 10, 14, 19, 6>>
      [] n = 27 -> <<8, 13, 9, 21, 0, 11, 16, 17, 12, 24, 1, 4, 5, 2, 15, 22, 3, 25, 23, 18, 26, 20, 7, 10, 14, 19, 6>>
      [] n = 28 -> <<9, 25, 8, 21, 0, 12, 17, 22, 11, 13, 15, 1, 4, 5, 2, 16, 23, 3, 26, 24, 18, 27, 20, 7, 10, 14, 19, 6>>
      [] n = 29 -> <<27, 16, 12, 22, 8, 9, 21, 0, 26, 13, 15, 11, 17, 1, 4, 5, 2, 24, 3, 23, 25, 18, 28, 20, 7, 10, 14, 19, 6>>
      [] n = 30 -> <<27, 15, 23, 17, 8, 9, 28, 24, 12, 0, 4, 16, 5, 13, 11, 22, 1, 2, 25, 3, 21, 26, 18, 29, 20, 7, 10, 14, 19, 6>>
      [] n = 31 -> <<27, 15, 23, 17, 8, 9, 29, 24, 12, 0, 4, 16, 5, 13, 11, 22, 1, 2, 25, 3, 21, 26, 18, 30, 20, 7, 10, 14, 28, 19, 6>>
      [] n = 32 -> <<29, 15, 24, 17, 8, 9, 30, 25, 12, 0, 4, 16, 5, 13, 11, 23, 1, 2, 26, 3, 21, 27, 22, 18, 31, 20, 7, 10, 14, 28, 19, 6>>
      [] n = 33 -> <<31, 15, 26, 17, 8, 9, 19, 21, 12, 0, 4, 16, 5, 13, 11, 24, 1, 2, 29, 3, 27, 23, 30, 22, 18, 25, 6, 20, 32, 7, 10, 14, 28>>
      [] n = 34 -> <<15, 19, 27, 26, 8, 24, 21, 12, 32, 9, 0, 4, 16, 17, 5, 13, 11, 1, 2, 30, 3, 29, 23, 31, 22, 18, 25, 6, 20, 33, 7, 10, 14, 28>>
      [] n = 35 -> <<26, 13, 24, 21, 15, 29, 19, 12, 8, 16, 9, 33, 0, 4, 17, 27, 5, 11, 1, 2, 32, 3, 30, 23, 31, 10, 22, 18, 25, 6, 20, 34, 7, 14, 28>>
      [] n = 36 -> <<35, 13, 26, 30, 16, 31, 21, 12, 8, 17, 9, 34, 0, 4, 29, 15, 19, 5, 11, 1, 24, 2, 33, 3, 32, 23, 27, 10, 22, 18, 25, 6, 20, 7, 14, 28>>
      [] n = 37 -> <<17, 13, 4, 29, 35, 25, 6, 26, 24, 16, 8, 15, 12, 32, 9, 19, 0, 31, 5, 11, 1, 27, 21, 2, 36, 34, 3, 33, 23, 30, 10, 22, 18, 20, 7, 14, 28>>
      [] n = 38 -> <<33, 36, 4, 13, 30, 26, 6, 27, 24, 15, 17, 8, 16, 12, 19, 9, 32, 0, 25, 5, 11, 1, 37, 21, 2, 29, 35, 3, 34, 23, 31, 10, 22, 18, 20, 7, 14, 28>>
      [] n = 39 -> <<33, 36, 4, 13, 30, 26, 6, 27, 24, 15, 17, 8, 16, 12, 19, 9, 32, 0, 25, 5, 11, 1, 37, 21, 2, 29, 35, 3, 34, 23, 31, 10, 22, 18, 20, 7, 14, 28, 38>>
      [] n = 40 -> <<19, 16, 15, 26, 4, 12, 37, 27, 39, 6, 25, 9, 13, 31, 34, 8, 17, 24, 0, 33, 5, 11, 1, 29, 21, 2, 30, 36, 3, 35, 23, 32, 10, 22, 18, 20, 7, 14, 28, 38>>
      [] n = 41 -> <<24, 13, 8, 25, 4, 40, 19, 39, 29, 6, 26, 12, 17, 9, 15, 32, 16, 35, 34, 0, 27, 5, 11, 1, 30, 21, 2, 31, 37, 3, 36, 23, 33, 10, 22, 18, 20, 7, 14, 28, 38>>
      [] n = 42 -> <<25, 13, 8, 26, 4, 39, 19, 29, 30, 6, 27, 12, 17, 9, 15, 33, 16, 36, 35, 0, 24, 5, 11, 40, 1, 31, 21, 2, 32, 41, 3, 37, 23, 34, 10, 22, 18, 20, 7, 14, 28, 38>>
      [] n = 43 -> <<37, 24, 25, 36, 34, 39, 4, 12, 8, 3, 6, 27, 31, 19, 17, 13, 40, 15, 9, 16, 30, 26, 0, 29, 41, 5, 11, 32, 1, 42, 21, 2, 33, 23, 35, 10, 22, 18, 20, 7, 14, 28, 38>>
      [] n = 44 -> <<37, 24, 25, 36, 34, 40, 4, 12, 8, 3, 6, 27, 31, 19, 17, 13, 41, 15, 9, 16, 30, 26, 0, 29, 42, 5, 11, 32, 1, 39, 21, 2, 33, 23, 35, 10, 22, 18, 43, 20, 7, 14, 28, 38>>
      [] n = 45 -> <<39, 25, 26, 43, 35, 41, 4, 12, 8, 3, 6, 24, 32, 19, 17, 13, 42, 15, 9, 16, 37, 31, 27, 0, 30, 29, 5, 11, 33, 1, 40, 21, 2, 34, 23, 36, 10, 22, 18, 44, 20, 7, 14, 28, 38>>
      [] n = 46 -> <<39, 25, 26, 44, 35, 41, 4, 12, 8, 3, 6, 24, 32, 19, 17, 13, 43, 15, 9, 16, 37, 31, 27, 0, 30, 29, 5, 11, 33, 1, 40, 21, 2, 34, 23, 36, 10, 22, 18, 45, 20, 7, 42, 14, 28, 38>>
      [] n = 47 -> <<27, 39, 26, 43, 24, 36, 12, 19, 4, 25, 8, 3, 6, 40, 33, 13, 17, 44, 15, 9, 16, 29, 32, 45, 0, 31, 30, 5, 11, 34, 1, 41, 21, 2, 35, 23, 37, 10, 22, 18, 46, 20, 7, 42, 14, 28, 38>>
      [] n = 48 -> <<27, 40, 26, 43, 24, 37, 12, 19, 4, 25, 8, 3, 6, 39, 33, 13, 17, 45, 15, 9, 16, 29, 32, 46, 0, 31, 30, 5, 11, 34, 1, 44, 21, 2, 36, 35, 23, 41, 10, 22, 18, 47, 20, 7, 42, 14, 28, 38>>
      [] n = 49 -> <<13, 45, 47, 44, 17, 27, 26, 25, 31, 19, 12, 4, 34, 8, 3, 6, 40, 41, 46, 15, 9, 16, 24, 33, 30, 0, 43, 32, 5, 29, 11, 36, 1, 21, 2, 37, 35, 23, 39, 10, 22, 18, 48, 20, 7, 42, 14, 28, 38>>
      [] n = 50 -> <<13, 39, 30, 45, 17, 48, 26, 25, 32, 19, 12, 4, 37, 8, 3, 6, 41, 46, 47, 15, 9, 16, 24, 34, 31, 0, 44, 27, 33, 5, 29, 11, 36, 1, 21, 2, 43, 35, 23, 40, 10, 22, 18, 49, 20, 7, 42, 14, 28, 38>>
      [] n = 51 -> <<43, 40, 46, 12, 24, 31, 17, 32, 3, 30, 13, 8, 49, 6, 47, 4, 36, 33, 19, 48, 15, 9, 16, 26, 44, 25, 11, 0, 45, 27, 34, 5, 29, 37, 1, 21, 2, 39, 35, 23, 41, 10, 22, 18, 50, 20, 7, 42, 14, 28, 38>>
      [] n = 52 -> <<19, 41, 47, 12, 43, 5, 17, 50, 3, 32, 13, 8, 26, 6, 34, 4, 37, 24, 44, 33, 49, 15, 9, 16, 30, 36, 25, 11, 0, 46, 27, 31, 39, 29, 45, 1, 21, 2, 40, 35, 23, 48, 10, 22, 18, 51, 20, 7, 42, 14, 28, 38>>
      [] n = 53 -> <<19, 41, 47, 12, 43, 5, 17, 50, 3, 32, 13, 8, 26, 6, 34, 4, 37, 24, 44, 33, 49, 15, 9, 16, 30, 36, 25, 11, 0, 46, 27, 31, 39, 29, 45, 1, 21, 2, 40, 35, 23, 48, 10, 22, 18, 52, 20, 7, 42, 14, 28, 51, 38>>
      [] n = 54 -> <<19, 49, 48, 12, 44, 5, 17, 52, 3, 32, 13, 8, 26, 6, 34, 4, 37, 24, 45, 33, 50, 15, 9, 16, 30, 36, 25, 11, 0, 47, 27, 31, 40, 29, 46, 1, 21, 2, 41, 39, 35, 23, 43, 10, 22, 18, 53, 20, 7, 42, 14, 28, 51, 38>>
      [] n = 55 -> <<31, 5, 32, 13, 19, 49, 41, 26, 43, 12, 52, 3, 33, 34, 8, 17, 6, 4, 47, 27, 46, 45, 53, 15, 9, 16, 24, 30, 37, 25, 11, 0, 48, 36, 29, 40, 1, 21, 2, 50, 39, 35, 23, 44, 10, 22, 18, 54, 20, 7, 42, 14, 28, 51, 38>>
      [] n = 56 -> <<0, 5, 33, 13, 19, 50, 36, 26, 44, 12, 54, 3, 34, 30, 8, 17, 6, 4, 41, 27, 47, 46, 52, 15, 9, 16, 24, 31, 53, 48, 25, 11, 32, 49, 37, 29, 40, 1, 21, 2, 43, 39, 35, 23, 45, 10, 22, 18, 55, 20, 7, 42, 14, 28, 51, 38>>
      [] n = 57 -> <<0, 5, 30, 13, 34, 55, 27, 31, 45, 12, 47, 3, 43, 26, 8, 17, 6, 4, 40, 19, 36, 48, 37, 53, 15, 9, 16, 24, 33, 54, 52, 25, 11, 32, 50, 49, 29, 41, 1, 21, 2, 44, 39, 35, 23, 46, 10, 22, 18, 56, 20, 7, 42, 14, 28, 51, 38>>
      [] n = 58 -> <<0, 5, 34, 13, 44, 52, 37, 25, 46, 12, 48, 3, 36, 31, 8, 17, 6, 4, 41, 19, 30, 49, 50, 54, 15, 9, 27, 26, 16, 24, 33, 55, 40, 11, 32, 56, 43, 29, 53, 1, 21, 2, 45, 39, 35, 23, 47, 10, 22, 18, 57, 20, 7, 42, 14, 28, 51, 38>>
      [] n = 59 -> <<0, 5, 34, 13, 45, 53, 57, 25, 47, 12, 49, 3, 36, 31, 8, 17, 6, 4, 54, 19, 30, 50, 44, 55, 15, 9, 27, 26, 16, 24, 33, 56, 41, 11, 32, 52, 40, 37, 29, 43, 1, 21, 2, 46, 39, 35, 23, 48, 10, 22, 18, 58, 20, 7, 42, 14, 28, 51, 38>>
      [] n = 60 -> <<0, 5, 36, 45, 13, 54, 33, 48, 12, 57, 46, 50, 31, 3, 52, 17, 8, 6, 40, 4, 43, 19, 34, 58, 25, 56, 15, 27, 9, 30, 26, 16, 24, 55, 11, 32, 53, 41, 37, 29, 44, 1, 21, 2, 47, 39, 35, 23, 49, 10, 22, 18, 59, 20, 7, 42, 14, 28, 51, 38>>

\* the default number of folds of TargetEncoder's internal cross fitting
CV == 5

\* test_size=0.2: n_test = ceil(0.2 * n), n_train = n - n_test
NTest(n) == (n + 4) \div 5
NTrain(n) == n - NTest(n)

\* train_test_split raises ValueError when the train set would be empty
SplitRaises(df) == NTrain(Len(df)) = 0

TestRows(df) ==
    LET perm == Perm42(Len(df))
    IN [i \in 1..NTest(Len(df)) |-> df[perm[i] + 1]]

TrainRowsMutant(df) ==
    LET perm == Perm42(Len(df)) nt == NTest(Len(df))
    IN [i \in 1..NTrain(Len(df)) |-> df[perm[nt + i - 1] + 1]]

TrainRows(df) ==
    LET perm == Perm42(Len(df)) nt == NTest(Len(df))
    IN [i \in 1..NTrain(Len(df)) |-> df[perm[nt + i] + 1]]

cat_cols == {"Airline", "Origin", "Dest"}

RECURSIVE SumCells(_)
SumCells(cells) == IF cells = <<>> THEN Num(0) ELSE AddFrac(Head(cells), SumCells(Tail(cells)))

MeanOf(cells) == LET t == SumCells(cells) IN Frac(t[1], t[2] * Len(cells))

LabelsOf(rows) == [i \in 1..Len(rows) |-> rows[i].DepDel15]

\* TargetEncoder.fit raises on a null label, and its stratified cross fitting
\* on a label of which no class has CV members
FitRaises(rows) ==
    LET y == LabelsOf(rows)
    IN \/ \E i \in 1..Len(y) : IsNull(y[i])
       \/ \A c \in {y[i] : i \in 1..Len(y)} : Len(SelectSeq(y, LAMBDA v : v = c)) < CV

EncoderFitRowsMutant(df) == df
\* the rows the encoder is fit on: encoder.fit_transform(X_train[cat_cols], y_train)
EncoderFitRows(df) == TrainRows(df)

\* The fitted encoder: for each categorical column the mean label of each
\* category seen, and the mean label of all rows for a category not seen.
\* (The library's smoothing and cross fitting read the same rows and labels.)
Fit(rows) ==
    [target_mean |-> MeanOf(LabelsOf(rows)),
     encodings |-> [c \in cat_cols |->
        [v \in {rows[i][c] : i \in 1..Len(rows)} |->
            MeanOf(LabelsOf(SelectSeq(rows, LAMBDA r : r[c] = v)))]]]

Encode(enc, c, v) ==
    IF v \in DOMAIN enc.encodings[c] THEN enc.encodings[c][v] ELSE enc.target_mean

Transform(enc, rows) ==
    [i \in 1..Len(rows) |->
        [f \in DOMAIN rows[i] |->
            IF f \in cat_cols THEN Encode(enc, f, rows[i][f]) ELSE rows[i][f]]]

EncoderRaises(df) == FitRaises(EncoderFitRows(df))

TrainTestSplitEncoder(df) ==
    LET enc == Fit(EncoderFitRows(df))
    IN [train |-> Transform(enc, TrainRows(df)), test |-> Transform(enc, TestRows(df))]


\* ------------------------------------------------------------------------
\* merge_flight_weather, one call (final_data.py lines 105-178)
\* ------------------------------------------------------------------------
ExceptReturnsMutant == "raise"
\* what the call hands back when the try block raises: the except clause logs
\* the error and the function falls off its end
ExceptReturns == "None"

MergeFlightWeatherMutant(flight, weather, bad, delete) ==
    IF ~flight.exists THEN [ret |-> "None", removes |-> FALSE]
    ELSE IF ~weather.exists THEN [ret |-> "None", removes |-> FALSE]
    ELSE IF bad THEN [ret |-> "None", removes |-> delete]
    ELSE [ret |-> "df", removes |-> delete]

\* The path one call takes: what it returns ("None", "df" or "raise") and
\* whether it reaches os.remove of its two source files.  `bad` says that
\* reading the files or running the query raises.
MergeFlightWeather(flight, weather, bad, delete) ==
    IF ~flight.exists THEN [ret |-> "None", removes |-> FALSE]
    ELSE IF ~weather.exists THEN [ret |-> "None", removes |-> FALSE]
    ELSE IF bad THEN [ret |-> ExceptReturns, removes |-> FALSE]
    ELSE [ret |-> "df", removes |-> delete]

\* ------------------------------------------------------------------------
\* Calendar dates: a datetime at midnight is its proleptic Gregorian ordinal
\* (0001-01-01 is day 1, a Monday)
\* ------------------------------------------------------------------------
IsLeap(y) == y % 4 = 0 /\ (y % 100 # 0 \/ y % 400 = 0)

DaysInMonth(y, m) ==
    CASE m \in {4, 6, 9, 11} -> 30
      [] m = 2 -> (IF IsLeap(y) THEN 29 ELSE 28)
      [] OTHER -> 31

RECURSIVE DaysBeforeMonth(_, _)
DaysBeforeMonth(y, m) ==
    IF m = 1 THEN 0 ELSE DaysBeforeMonth(y, m - 1) + DaysInMonth(y, m - 1)

DaysBeforeYear(y) == 365 * (y - 1) + (y - 1) \div 4 - (y - 1) \div 100 + (y - 1) \div 400

Ordinal(y, m, d) == DaysBeforeYear(y) + DaysBeforeMonth(y, m) + d

\* the digits YYYYMMDD of a raw date
Ymd(y, m, d) == [y |-> y, m |-> m, d |-> d]

\* pd.to_datetime(col, format="%Y%m%d") raises on a date that does not exist
ToDatetimeRaises(raw) ==
    ~(raw.m \in 1..12 /\ raw.d >= 1 /\ raw.d <= DaysInMonth(raw.y, raw.m))

ToDatetime(raw) == Ordinal(raw.y, raw.m, raw.d)

YearOf(date) ==
    CHOOSE y \in 1900..2100 : DaysBeforeYear(y) < date /\ date <= DaysBeforeYear(y + 1)

\* Series.dt.dayofyear
DayOfYear(date) == date - DaysBeforeYear(YearOf(date))

\* the day of the week of a date, 1 = Monday ... 7 = Sunday: the numbering of
\* the DayOfWeek column of the On-Time Performance flight data
DayOfWeekOf(date) == ((date - 1) % 7) + 1

\* ------------------------------------------------------------------------
\* process_flight_data.py: the transformation steps of clean_flight_file
\* ------------------------------------------------------------------------
\* undersample_delays (lines 36-43): every row with DepDel15 = 1, and as many
\* rows with DepDel15 = 0 drawn without replacement by resample(random_state=42)
DelayedFlights(df) == SelectSeq(df, LAMBDA r : r.DepDel15 = Num(1))
OnTimeFlights(df) == SelectSeq(df, LAMBDA r : r.DepDel15 = Num(0))

\* resample raises when asked for more rows than there are
UndersampleRaises(df) == Len(DelayedFlights(df)) > Len(OnTimeFlights(df))

UndersampleDelays(df) ==
    LET on_time == OnTimeFlights(df)
        perm == Perm42(Len(on_time))
    IN DelayedFlights(df)
         \o [i \in 1..Len(DelayedFlights(df)) |-> on_time[perm[i] + 1]]

\* convert_flight_date (lines 45-50)
ConvertFlightDate(df) ==
    [i \in 1..Len(df) |-> [df[i] EXCEPT !.FlightDate = ToDatetime(@)]]

\* np.select(conditions, [0, 1, 2], default="Unknown"): the first condition
\* that holds chooses; a comparison with NaN never holds.  (The values of these
\* columns are whole numbers, v[1] of the cell <<v[1], 1>>.)
CategorizeAirtimeValue(v) ==
    IF IsNull(v) THEN "Unknown"
    ELSE IF v[1] < 120 THEN "0"
    ELSE IF v[1] >= 120 /\ v[1] < 360 THEN "1"
    ELSE IF v[1] >= 360 THEN "2"
    ELSE "Unknown"

CategorizeDistanceValue(v) ==
    IF IsNull(v) THEN "Unknown"
    ELSE IF v[1] < 500 THEN "0"
    ELSE IF v[1] >= 500 /\ v[1] < 2500 THEN "1"
    ELSE IF v[1] >= 2500 THEN "2"
    ELSE "Unknown"

CategorizeTimeOfDayValue(v) ==
    IF IsNull(v) THEN "Unknown"
    ELSE IF v[1] < 600 THEN "0"
    ELSE IF v[1] >= 600 /\ v[1] < 1200 THEN "1"
    ELSE IF v[1] >= 1200 /\ v[1] < 1800 THEN "2"
    ELSE IF v[1] >= 1800 THEN "3"
    ELSE "Unknown"

\* categorize_airtime (lines 52-60)
CategorizeAirtime(df) ==
    [i \in 1..Len(df) |-> df[i] @@ [AirTimeCategory |-> CategorizeAirtimeValue(df[i].AirTime)]]

\* categorize_distance (lines 62-70)
CategorizeDistance(df) ==
    [i \in 1..Len(df) |-> df[i] @@ [DistanceCategory |-> CategorizeDistanceValue(df[i].Distance)]]

\* categorize_time_of_day (lines 72-81)
CategorizeTimeOfDay(df) ==
    [i \in 1..Len(df) |-> df[i] @@ [TimeofDay |-> CategorizeTimeOfDayValue(df[i].CRSDepTime)]]

\* military_to_minutes (lines 85-90); // and % round towards minus infinity,
\* and every comparison with NaN is false, so NaN comes back as NaN
MilitaryToMinutes(time) ==
    IF IsNull(time) THEN NULL
    ELSE LET hh == time[1] \div 100
             mm == time[1] % 100
         IN IF mm >= 60 \/ hh >= 24 THEN NULL ELSE Num(hh * 60 + mm)

\* convert_military_time (lines 83-93)
ConvertMilitaryTime(df) ==
    [i \in 1..Len(df) |->
        [df[i] EXCEPT !.CRSDepTime = MilitaryToMinutes(@),
                      !.CRSArrTime = MilitaryToMinutes(@)]]

\* add_cyclical_features (lines 95-102): the pairs (column, period); the sine
\* and cosine columns of a column are kept as their angle in turns, col / period
CyclicalPeriods ==
    [CRSDepTime |-> 2358, CRSArrTime |-> 2358, DayOfYear |-> 365, DayOfWeek |-> 7,
     Month |-> 12]

AddCyclicalFeatures(df) ==
    [i \in 1..Len(df) |->
        LET r == df[i] @@ [DayOfYear |-> Num(DayOfYear(df[i].FlightDate))]
        IN r @@ [cyclical |->
                    [c \in DOMAIN CyclicalPeriods |->
                        IF IsNull(r[c]) THEN NULL ELSE Frac(r[c][1], CyclicalPeriods[c])]]]

\* The calendar of the holidays package, of which the holidays on a fixed day
\* of the year are modelled: New Year's Day, Independence Day, Veterans Day
\* and Christmas Day.
USHolidays(y) ==
    {Ordinal(y, 1, 1), Ordinal(y, 7, 4), Ordinal(y, 11, 11), Ordinal(y, 12, 25)}

\* holidays.US(years=range(2018, 2023))
HolidayYears == 2018..2022

us_holidays == UNION {USHolidays(y) : y \in HolidayYears}

days_window == 3

holiday_ranges == {h + offset : h \in us_holidays, offset \in (0 - days_window)..days_window}

\* add_holiday_indicators (lines 104-122)
AddHolidayIndicators(df) ==
    [i \in 1..Len(df) |->
        df[i] @@ [Holiday_Indicator |-> IF df[i].FlightDate \in us_holidays THEN 1 ELSE 0,
                  Near_Holiday |-> IF df[i].FlightDate \in holiday_ranges THEN 1 ELSE 0]]

\* lambda x: 1 if x in [1, 7] else 0
WeekendIndicatorOf(x) == IF x \in {Num(1), Num(7)} THEN 1 ELSE 0

\* add_weekend_indicator (lines 124-126)
AddWeekendIndicator(df) ==
    [i \in 1..Len(df) |-> df[i] @@ [Weekend_Indicator |-> WeekendIndicatorOf(df[i].DayOfWeek)]]

\* add_working_indicator (lines 128-130)
AddWorkingIndicator(df) ==
    [i \in 1..Len(df) |->
        df[i] @@ [Working_Day |->
                     IF df[i].Weekend_Indicator = 1 \/ df[i].Holiday_Indicator = 1
                     THEN 0 ELSE 1]]

\* the steps of clean_flight_file, in the order of its list (lines 158-169)
FlightSteps ==
    <<"undersample_delays", "convert_flight_date", "categorize_airtime",
      "categorize_distance", "categorize_time_of_day", "convert_military_time",
      "add_cyclical_features", "add_holiday_indicators", "add_weekend_indicator",
      "add_working_indicator">>

\* ------------------------------------------------------------------------
\* process_noaa_data.py: clean_noaa_file (lines 45-144)
\* ------------------------------------------------------------------------
\* the station-airport mapping file: rows (Closest_Station, Airport); two
\* airports of one city have the same closest station
StationKey ==
    << [Closest_Station |-> "USW00013874", Airport |-> "PDK"],
       [Closest_Station |-> "USW00013874", Airport |-> "ATL"],
       [Closest_Station |-> "USW00094789", Airport |-> "JFK"],
       [Closest_Station |-> "USW00094846", Airport |-> "ORD"] >>

valid_stations == {StationKey[i].Closest_Station : i \in 1..Len(StationKey)}

\* dict(zip(stations, airports)): the last row of a station wins
station_mapping ==
    [s \in valid_stations |->
        LET last == CHOOSE i \in 1..Len(StationKey) :
                        /\ StationKey[i].Closest_Station = s
                        /\ \A k \in (i + 1)..Len(StationKey) : StationKey[k].Closest_Station # s
        IN StationKey[last].Airport]

\* config["noaa_data"]["elements"] and ["zero_out_elements"]
CORE_ELEMENTS == Elements
ZERO_OUT_ELEMENTS == {"PRCP", "SNOW", "SNWD"}

\* aggfunc="first": the first value of the group that is not null
FirstValue(records) ==
    LET vals == SelectSeq(records, LAMBDA r : ~IsNull(r.VALUE))
    IN IF vals = <<>> THEN NULL ELSE vals[1].VALUE

PivotTableMutant(df) ==
    [i \in 1..Len(df) |->
        [STATION |-> df[i].STATION, DATE |-> df[i].DATE,
         m |-> [e \in Elements |-> IF df[i].ELEMENT = e THEN df[i].VALUE ELSE NULL]]]

\* df.pivot_table(index=["STATION", "DATE"], columns="ELEMENT", values="VALUE",
\* aggfunc="first"): one row for every (STATION, DATE) that has a value
PivotTable(df) ==
    LET keys == {<<df[i].STATION, df[i].DATE>> :
                    i \in {k \in 1..Len(df) : ~IsNull(df[k].VALUE)}}
    IN SeqOfSet({[STATION |-> key[1], DATE |-> key[2],
                  m |-> [e \in Elements |->
                            FirstValue(SelectSeq(df, LAMBDA r :
                                r.STATION = key[1] /\ r.DATE = key[2] /\ r.ELEMENT = e))]] :
                 key \in keys})

\* fillna(0) of the zero-out elements (line 116)
ZeroOut(df) ==
    [i \in 1..Len(df) |->
        [df[i] EXCEPT !.m = [e \in Elements |->
            IF e \in ZERO_OUT_ELEMENTS /\ IsNull(@[e]) THEN Num(0) ELSE @[e]]]]

\* pd.to_datetime raises on a date that does not exist, in a row that the two
\* filters kept
NoaaRaises(raw) ==
    \E i \in 1..Len(raw) :
        /\ raw[i].STATION \in valid_stations
        /\ raw[i].ELEMENT \in CORE_ELEMENTS
        /\ ToDatetimeRaises(raw[i].DATE)

\* the frame clean_noaa_file writes for the records of its csv file
CleanNoaaFile(raw) ==
    LET stations == SelectSeq(raw, LAMBDA r : r.STATION \in valid_stations)
        elements == SelectSeq(stations, LAMBDA r : r.ELEMENT \in CORE_ELEMENTS)
        mapped == [i \in 1..Len(elements) |->
                      [elements[i] EXCEPT !.STATION = station_mapping[@],
                                          !.DATE = ToDatetime(@)]]
    IN ZeroOut(PivotTable(mapped))

\* ------------------------------------------------------------------------
\* The driver (final_data.py lines 182-251)
\* ------------------------------------------------------------------------
StageAfterMutant(stage) ==
    CASE stage = "concat" -> "rolling"
      [] stage = "rolling" -> "save_train"
      [] stage = "save_train" -> "split"
      [] stage = "split" -> "save_test"
      [] stage = "save_test" -> "complete"

\* the statement that follows each stage of the driver's "if merged_dataframes:"
\* block (final_data.py lines 203-243)
StageAfter(stage) ==
    CASE stage = "concat" -> "rolling"
      [] stage = "rolling" -> "split"
      [] stage = "split" -> "save_train"
      [] stage = "save_train" -> "save_test"
      [] stage = "save_test" -> "complete"

\* to_parquet(path, index=False): the index is not written
ToParquet(rows) ==
    [i \in 1..Len(rows) |-> [f \in DOMAIN rows[i] \ {"index"} |-> rows[i][f]]]

\* config["paths"]["final_combined"] as the components of the path
FINAL_FILE == <<"data", "final", "final_data.parquet">>

\* the values config["paths"]["final_by_year"] may have: the directory of
\* FINAL_FILE, or a directory below it
SaveDirs == {<<"data", "final">>, <<"data", "final", "by_year">>}

\* os.path.dirname
Dirname(path) == SubSeq(path, 1, Len(path) - 1)

\* os.makedirs(d, exist_ok=True): the directory and every directory above it
Makedirs(d) == {SubSeq(d, 1, k) : k \in 1..Len(d)}

VARIABLES
    DELETE_SOURCE_FILES, \* config["final_data"]["delete_processed"]
    SAVE_DIR,            \* config["paths"]["final_by_year"]
    dirs,                \* the directories that exist
    input,               \* the source files as they were when the run started
    malformed,           \* the years whose files cannot be read or joined
    fs,                  \* the source files now
    task,                \* per year: "none", "submitted" or "finished"
    result,              \* per year: what its future holds
    collected,           \* the years whose future as_completed has yielded
    merged_dataframes,   \* the list the driver appends to
    merged_years,        \* the years of the tables appended, in that order
    final_df,
    train_data,
    test_data,
    out,                 \* train_data.parquet and test_data.parquet
    stages,              \* the stages completed so far, in order
    pc,                  \* where the main thread is
    exit_status,         \* -1 while running, then the exit status of the process
    \* process_flight_data.py and process_noaa_data.py, one file each
    raw_flight,          \* the extracted flight file read by clean_flight_file
    flight_df,           \* df of clean_flight_file
    flight_step,         \* the number of transformation steps done, or "saved" / "error"
    processed_flight,    \* processed_flight_<year>.parquet
    raw_noaa,            \* the extracted NOAA csv file read by clean_noaa_file
    noaa_status,         \* "loaded", then "saved" or "error"
    processed_noaa,      \* processed_noaa_<year>.parquet
    \* extract_noaa_data.py and extract_flight_data.py, one archive each
    archives,            \* what the downloaded .csv.gz and .zip files hold
    delete_flags,        \* delete_gz, delete_zip, delete_csv, delete_pq of the config
    stage_fs,            \* the state of the .csv.gz, .zip, extracted .csv and .parquet
    extract_status       \* how extract_file and extract_parquet_files have ended

\* utils/config_loader.py: one call of load_yaml_files
VARIABLES
    file_paths,          \* the documents of the files of the call, in order
    merged_config,       \* merged_config of load_yaml_files
    files_read,          \* the number of turns of the loop done
    loader_pc            \* "idle", "loop" or "returned"

loadervars == <<file_paths, merged_config, files_read, loader_pc>>

\* pipeline.py: one run of the command line
VARIABLES
    args,                \* the parsed command line of pipeline.py
    phase_i,             \* the number of calls of __main__ that have returned
    loop_i,              \* the number of turns done of the loop of the current call
    started,             \* the commands run_step has run, with their return codes
    train_calls,         \* the calls of train_model of train.py, in order
    pl_log,              \* the messages pipeline.py has logged at the end of a call
    pl_exit              \* -1 while pipeline.py runs, then its exit status

pipelinevars == <<args, phase_i, loop_i, started, train_calls, pl_log, pl_exit>>

toolvars == <<loadervars, pipelinevars>>

\* load_yaml_files is not running
LoaderIdle ==
    /\ file_paths = <<>>
    /\ merged_config = <<>>
    /\ files_read = 0
    /\ loader_pc = "idle"

NoArgs == [run |-> FALSE, data |-> FALSE, train |-> "none", base |-> FALSE]

\* pipeline.py is not running
PipelineIdle ==
    /\ args = NoArgs
    /\ phase_i = 0
    /\ loop_i = 0
    /\ started = <<>>
    /\ train_calls = <<>>
    /\ pl_log = <<>>
    /\ pl_exit = -1

ToolIdle == LoaderIdle /\ PipelineIdle

cleanvars == <<raw_flight, flight_df, flight_step, processed_flight, raw_noaa,
               noaa_status, processed_noaa, archives, delete_flags, stage_fs,
               extract_status>>

vars == <<DELETE_SOURCE_FILES, SAVE_DIR, dirs, input, malformed, fs, task, result, collected,
          merged_dataframes, merged_years, final_df, train_data, test_data, out,
          stages, pc, exit_status, cleanvars, toolvars>>

\* the cleaning scripts are not running
CleanIdle ==
    /\ raw_flight = <<>>
    /\ flight_df = <<>>
    /\ flight_step = "none"
    /\ processed_flight = Missing
    /\ raw_noaa = <<>>
    /\ noaa_status = "none"
    /\ processed_noaa = Missing
    /\ archives = <<>>
    /\ delete_flags = <<>>
    /\ stage_fs = <<>>
    /\ extract_status = <<>>

NoResult == [ret |-> "pending", df |-> <<>>]

SourceFiles(y) ==
    { [flight |-> f, weather |-> w] :
        f \in {Missing, File(FullFlightTable(y))},
        w \in {Missing} \cup {File(t) : t \in WeatherTables(y)} }

Init ==
    /\ DELETE_SOURCE_FILES \in BOOLEAN
    /\ SAVE_DIR \in SaveDirs
    /\ dirs = Makedirs(Dirname(FINAL_FILE))
    /\ input \in [YEARS -> UNION {SourceFiles(y) : y \in YEARS}]
    /\ \A y \in YEARS : input[y] \in SourceFiles(y)
    /\ malformed \in [YEARS -> BOOLEAN]
    /\ \A y \in YEARS : malformed[y] => input[y].flight.exists /\ input[y].weather.exists
    /\ fs = input
    /\ task = [y \in YEARS |-> "none"]
    /\ result = [y \in YEARS |-> NoResult]
    /\ collected = {}
    /\ merged_dataframes = <<>>
    /\ merged_years = <<>>
    /\ final_df = <<>>
    /\ train_data = <<>>
    /\ test_data = <<>>
    /\ out = [train |-> Missing, test |-> Missing]
    /\ stages = <<>>
    /\ pc = "submit"
    /\ exit_status = -1
    /\ CleanIdle
    /\ ToolIdle

\* executor.submit(merge_flight_weather, year, ...), for the years in order
Submit(y) ==
    /\ pc = "submit"
    /\ task[y] = "none"
    /\ \A z \in YEARS : z < y => task[z] # "none"
    /\ task' = [task EXCEPT ![y] = "submitted"]
    /\ pc' = IF \E z \in YEARS : z > y THEN "submit" ELSE "collect"
    /\ UNCHANGED <<cleanvars, toolvars>>
    /\ UNCHANGED <<DELETE_SOURCE_FILES, SAVE_DIR, dirs, input, malformed, fs, result,
                   collected,
                   merged_dataframes, merged_years, final_df, train_data, test_data,
                   out, stages, exit_status>>

\* a worker thread runs merge_flight_weather(y)
MergeTask(y) ==
    /\ task[y] = "submitted"
    /\ LET path == MergeFlightWeather(fs[y].flight, fs[y].weather, malformed[y],
                                      DELETE_SOURCE_FILES)
       IN /\ \E rows \in ResultOrders(MergeQuery(fs[y].flight.rows, fs[y].weather.rows)) :
                result' = [result EXCEPT ![y] =
                             [ret |-> path.ret, df |-> IF path.ret = "df" THEN rows ELSE <<>>]]
          /\ fs' = IF path.removes
                   THEN [fs EXCEPT ![y] = [flight |-> Missing, weather |-> Missing]]
                   ELSE fs
    /\ task' = [task EXCEPT ![y] = "finished"]
    /\ UNCHANGED <<cleanvars, toolvars>>
    /\ UNCHANGED <<DELETE_SOURCE_FILES, SAVE_DIR, dirs, input, malformed, collected,
                   merged_dataframes,
                   merged_years, final_df, train_data, test_data, out, stages, pc,
                   exit_status>>

\* for future in as_completed(merge_tasks): merged_df = future.result() ...
Collect(y) ==
    /\ pc = "collect"
    /\ task[y] = "finished"
    /\ y \notin collected
    /\ collected' = collected \cup {y}
    /\ IF result[y].ret = "raise"
       THEN /\ pc' = "crashed"
            /\ exit_status' = 1
            /\ UNCHANGED <<merged_dataframes, merged_years, stages>>
       ELSE /\ merged_dataframes' = IF result[y].ret = "df"
                                    THEN Append(merged_dataframes, result[y].df)
                                    ELSE merged_dataframes
            /\ merged_years' = IF result[y].ret = "df"
                               THEN Append(merged_years, y) ELSE merged_years
            /\ pc' = IF collected' # YEARS THEN "collect"
                     ELSE IF merged_dataframes' # <<>> THEN "concat" ELSE "no_data"
            /\ stages' = IF collected' = YEARS THEN Append(stages, "merge") ELSE stages
            /\ UNCHANGED exit_status
    /\ UNCHANGED <<cleanvars, toolvars>>
    /\ UNCHANGED <<DELETE_SOURCE_FILES, SAVE_DIR, dirs, input, malformed, fs, task, result, final_df,
                   train_data, test_data, out>>

\* final_df = pd.concat(merged_dataframes, ignore_index=True); del merged_dataframes
Concatenate ==
    /\ pc = "concat"
    /\ final_df' = Concat(merged_dataframes)
    /\ merged_dataframes' = <<>>
    /\ stages' = Append(stages, "concat")
    /\ pc' = StageAfter("concat")
    /\ UNCHANGED <<cleanvars, toolvars>>
    /\ UNCHANGED <<DELETE_SOURCE_FILES, SAVE_DIR, dirs, input, malformed, fs, task, result,
                   collected,
                   merged_years, train_data, test_data, out, exit_status>>

\* final_df = add_generic_rolling_averages(add_rolling_averages(final_df))
RollingAverages ==
    /\ pc = "rolling"
    /\ final_df' = FeatureEngineer(final_df)
    /\ stages' = Append(stages, "rolling")
    /\ pc' = StageAfter("rolling")
    /\ UNCHANGED <<cleanvars, toolvars>>
    /\ UNCHANGED <<DELETE_SOURCE_FILES, SAVE_DIR, dirs, input, malformed, fs, task, result,
                   collected,
                   merged_dataframes, merged_years, train_data, test_data, out,
                   exit_status>>

\* train_data, test_data = train_test_split_encoder(final_df); del final_df
\* An exception of the split or of the encoder is not caught: the process ends.
TrainTestSplit ==
    /\ pc = "split"
    /\ IF SplitRaises(final_df) \/ EncoderRaises(final_df)
       THEN /\ pc' = "crashed"
            /\ exit_status' = 1
            /\ UNCHANGED <<final_df, train_data, test_data, stages>>
       ELSE /\ train_data' = TrainTestSplitEncoder(final_df).train
            /\ test_data' = TrainTestSplitEncoder(final_df).test
            /\ final_df' = <<>>
            /\ stages' = Append(stages, "split")
            /\ pc' = StageAfter("split")
            /\ UNCHANGED exit_status
    /\ UNCHANGED <<cleanvars, toolvars>>
    /\ UNCHANGED <<DELETE_SOURCE_FILES, SAVE_DIR, dirs, input, malformed, fs, task, result,
                   collected,
                   merged_dataframes, merged_years, out>>

\* train_data.to_parquet(train_path, index=False); writing into a directory
\* that does not exist raises, and the exception is not caught
SaveTrain ==
    /\ pc = "save_train"
    /\ IF SAVE_DIR \in dirs
       THEN /\ out' = [out EXCEPT !.train = File(ToParquet(train_data))]
            /\ stages' = Append(stages, "save_train")
            /\ pc' = StageAfter("save_train")
            /\ UNCHANGED exit_status
       ELSE /\ pc' = "crashed"
            /\ exit_status' = 1
            /\ UNCHANGED <<out, stages>>
    /\ UNCHANGED <<cleanvars, toolvars>>
    /\ UNCHANGED <<DELETE_SOURCE_FILES, SAVE_DIR, dirs, input, malformed, fs, task, result,
                   collected,
                   merged_dataframes, merged_years, final_df, train_data, test_data>>

\* test_data.to_parquet(test_path, index=False)
SaveTest ==
    /\ pc = "save_test"
    /\ IF SAVE_DIR \in dirs
       THEN /\ out' = [out EXCEPT !.test = File(ToParquet(test_data))]
            /\ stages' = Append(stages, "save_test")
            /\ pc' = StageAfter("save_test")
            /\ UNCHANGED exit_status
       ELSE /\ pc' = "crashed"
            /\ exit_status' = 1
            /\ UNCHANGED <<out, stages>>
    /\ UNCHANGED <<cleanvars, toolvars>>
    /\ UNCHANGED <<DELETE_SOURCE_FILES, SAVE_DIR, dirs, input, malformed, fs, task, result,
                   collected,
                   merged_dataframes, merged_years, final_df, train_data, test_data>>

\* else: "No valid data was merged." is logged as a warning
NoValidData ==
    /\ pc = "no_data"
    /\ pc' = "complete"
    /\ UNCHANGED <<cleanvars, toolvars>>
    /\ UNCHANGED <<DELETE_SOURCE_FILES, SAVE_DIR, dirs, input, malformed, fs, task, result,
                   collected,
                   merged_dataframes, merged_years, final_df, train_data, test_data, out,
                   stages, exit_status>>

\* "All data finalization complete" is logged and the script ends
Complete ==
    /\ pc = "complete"
    /\ pc' = "done"
    /\ exit_status' = 0
    /\ UNCHANGED <<cleanvars, toolvars>>
    /\ UNCHANGED <<DELETE_SOURCE_FILES, SAVE_DIR, dirs, input, malformed, fs, task, result,
                   collected,
                   merged_dataframes, merged_years, final_df, train_data, test_data, out,
                   stages>>

\* run_step (pipeline.py lines 29-37): sys.exit(1) on a return code other than 0
RunStepExitsMutant(returncode) == FALSE

RunStepExits(returncode) == returncode # 0

\* final_data.py was started by run_step as the last of run_data_steps'
\* commands (pipeline.py lines 47, 54-58): when the script has ended, run_step
\* looks at its return code, and the loop being over, run_data_steps logs its
\* last message
FinalDataStepReturns ==
    /\ pc \in {"done", "crashed"}
    /\ pl_exit = -1
    /\ pl_log = <<>>
    /\ IF RunStepExits(exit_status)
       THEN pl_exit' = 1 /\ UNCHANGED pl_log
       ELSE /\ pl_log' = Append(pl_log, "Data processing completed successfully!")
            /\ UNCHANGED pl_exit
    /\ UNCHANGED <<cleanvars, loadervars, args, phase_i, loop_i, started, train_calls>>
    /\ UNCHANGED <<DELETE_SOURCE_FILES, SAVE_DIR, dirs, input, malformed, fs, task, result,
                   collected,
                   merged_dataframes, merged_years, final_df, train_data, test_data, out,
                   stages, pc, exit_status>>

Next ==
    \/ \E y \in YEARS : Submit(y)
    \/ \E y \in YEARS : MergeTask(y)
    \/ \E y \in YEARS : Collect(y)
    \/ Concatenate
    \/ RollingAverages
    \/ TrainTestSplit
    \/ SaveTrain
    \/ SaveTest
    \/ NoValidData
    \/ Complete
    \/ FinalDataStepReturns

Spec == Init /\ [][Next]_vars


\* ------------------------------------------------------------------------
\* The cleaning scripts on one extracted flight file and one extracted NOAA
\* file: process_noaa_data.py, then process_flight_data.py (pipeline.py 41-49)
\* ------------------------------------------------------------------------
drivervars == <<DELETE_SOURCE_FILES, SAVE_DIR, dirs, input, malformed, fs, task, result, collected,
                merged_dataframes, merged_years, final_df, train_data, test_data, out,
                stages, pc, exit_status>>

\* the scheduled times, air time and distance of the first flight of the file
RawValues ==
    << [dep |-> NULL, arr |-> NULL, air |-> NULL, dist |-> NULL],
       [dep |-> Num(0 - 100), arr |-> Num(0 - 1), air |-> Num(0 - 5), dist |-> Num(0 - 10)],
       [dep |-> Num(0 - 1), arr |-> Num(0), air |-> Num(0), dist |-> Num(0)],
       [dep |-> Num(0), arr |-> Num(59), air |-> Num(119), dist |-> Num(499)],
       [dep |-> Num(59), arr |-> Num(60), air |-> Num(120), dist |-> Num(500)],
       [dep |-> Num(60), arr |-> Num(100), air |-> Num(359), dist |-> Num(2499)],
       [dep |-> Num(559), arr |-> Num(600), air |-> Num(360), dist |-> Num(2500)],
       [dep |-> Num(600), arr |-> Num(1159), air |-> Num(30), dist |-> Num(100)],
       [dep |-> Num(1159), arr |-> Num(1200), air |-> Num(200), dist |-> Num(1000)],
       [dep |-> Num(1200), arr |-> Num(1759), air |-> Num(400), dist |-> Num(3000)],
       [dep |-> Num(1275), arr |-> Num(1260), air |-> Num(60), dist |-> Num(300)],
       [dep |-> Num(1759), arr |-> Num(1800), air |-> Num(90), dist |-> Num(600)],
       [dep |-> Num(1800), arr |-> Num(2359), air |-> Num(150), dist |-> Num(900)],
       [dep |-> Num(2359), arr |-> Num(2360), air |-> Num(45), dist |-> Num(250)],
       [dep |-> Num(2360), arr |-> Num(2400), air |-> Num(500), dist |-> Num(4000)],
       [dep |-> Num(2400), arr |-> Num(2460), air |-> Num(75), dist |-> Num(450)],
       [dep |-> Num(2500), arr |-> Num(9999), air |-> Num(240), dist |-> Num(1500)] >>

\* the dates of the first flight of the file: around the holidays, the ends of
\* the years the data covers, a leap day, every day of a week, and a date that
\* does not exist
RawDates ==
    {Ymd(2018, 1, d) : d \in 1..7}
        \cup {Ymd(2020, 2, 29), Ymd(2020, 7, 1), Ymd(2020, 7, 4), Ymd(2020, 7, 7),
              Ymd(2020, 7, 8), Ymd(2021, 11, 11), Ymd(2022, 12, 21), Ymd(2022, 12, 22),
              Ymd(2022, 12, 25), Ymd(2022, 12, 28), Ymd(2022, 12, 29), Ymd(2022, 12, 31),
              Ymd(2022, 2, 30)}

\* a row of the extracted flight file; its DayOfWeek and Month are those of
\* its FlightDate
RawFlightRow(id, date, origin, dest, label, v) ==
    [row |-> id, FlightDate |-> date, Origin |-> origin, Dest |-> dest, DepDel15 |-> label,
     CRSDepTime |-> v.dep, CRSArrTime |-> v.arr, AirTime |-> v.air, Distance |-> v.dist,
     DayOfWeek |-> Num(IF ToDatetimeRaises(date) THEN 1 ELSE DayOfWeekOf(ToDatetime(date))),
     Month |-> Num(date.m)]

RawFlightFile(date, v, label, label3) ==
    << RawFlightRow(1, date, "ATL", "JFK", Num(1), v),
       RawFlightRow(2, Ymd(2022, 12, 31), "JFK", "ATL", label, RawValues[9]),
       RawFlightRow(3, Ymd(2022, 12, 31), "ORD", "ATL", label3, RawValues[12]),
       RawFlightRow(4, Ymd(2020, 7, 4), "ATL", "ORD", Num(0), RawValues[4]) >>

NoaaRecord(station, date, element, value) ==
    [STATION |-> station, DATE |-> date, ELEMENT |-> element, VALUE |-> value]

\* the records of an extracted NOAA file: a station and day with two TMIN
\* records, an element that is not kept, a station that is not mapped
RawNoaaRecords ==
    << NoaaRecord("USW00013874", Ymd(2022, 12, 31), "TMIN", Num(5)),
       NoaaRecord("USW00013874", Ymd(2022, 12, 31), "TMIN", Num(7)),
       NoaaRecord("USW00013874", Ymd(2022, 12, 31), "TMAX", Num(9)),
       NoaaRecord("USW00094789", Ymd(2022, 12, 31), "TMAX", Num(3)),
       NoaaRecord("USW00094789", Ymd(2022, 12, 31), "TAVG", Num(2)),
       NoaaRecord("XXX00000000", Ymd(2022, 12, 31), "TMIN", Num(1)),
       NoaaRecord("USW00013874", Ymd(2020, 7, 4), "PRCP", Num(4)),
       NoaaRecord("USW00013874", Ymd(2020, 7, 4), "SNOW", NULL),
       NoaaRecord("USW00094846", Ymd(2018, 1, 1), "SNWD", NULL),
       NoaaRecord("USW00094789", Ymd(2018, 1, 1), "TMIN", Num(6)) >>

RawNoaaFiles ==
    { RawNoaaRecords,
      SelectSeq(RawNoaaRecords, LAMBDA r : r.STATION # "USW00013874"),
      Append(RawNoaaRecords, NoaaRecord("USW00094789", Ymd(2022, 2, 30), "TMIN", Num(1))) }

\* the driver is not running
DriverIdle ==
    /\ DELETE_SOURCE_FILES = FALSE
    /\ SAVE_DIR = Dirname(FINAL_FILE)
    /\ dirs = {}
    /\ input = [y \in YEARS |-> [flight |-> Missing, weather |-> Missing]]
    /\ malformed = [y \in YEARS |-> FALSE]
    /\ fs = input
    /\ task = [y \in YEARS |-> "none"]
    /\ result = [y \in YEARS |-> NoResult]
    /\ collected = {}
    /\ merged_dataframes = <<>>
    /\ merged_years = <<>>
    /\ final_df = <<>>
    /\ train_data = <<>>
    /\ test_data = <<>>
    /\ out = [train |-> Missing, test |-> Missing]
    /\ stages = <<>>
    /\ pc = "not_started"
    /\ exit_status = -1

\* the first flight of the file: every date with one set of values, and every
\* set of values with one date
RawFirstFlights ==
    {[date |-> d, v |-> RawValues[9]] : d \in RawDates}
        \cup {[date |-> Ymd(2018, 1, 3), v |-> RawValues[k]] : k \in 1..Len(RawValues)}

RawFlightFiles ==
    {RawFlightFile(f.date, f.v, label, label3) :
        f \in RawFirstFlights, label \in {Num(0), Num(1), NULL}, label3 \in {Num(0), Num(1)}}

\* a .csv.gz file: its records, and whether reading it fails after `readable`
\* of them
GzFiles ==
    {[records |-> r, corrupt |-> FALSE, readable |-> Len(r)] : r \in RawNoaaFiles}
        \cup {[records |-> RawNoaaRecords, corrupt |-> TRUE, readable |-> 3]}

\* a .zip file: one with a parquet member for a year, one with no parquet
\* member, one that is not a zip file, one whose member cannot be read
ZipFiles ==
    {[kind |-> "ok", rows |-> f] : f \in RawFlightFiles}
        \cup {[kind |-> k, rows |-> <<>>] : k \in {"no_parquet", "bad_zip", "bad_member"}}

\* the delete flags of the four stages
DeleteConfigs == [{"gz", "zip", "csv", "pq"} -> BOOLEAN]

\* os.remove(path) under "if DELETE_SOURCE:"
RemoveSourceMutant(files, f, flag) == [files EXCEPT ![f] = "deleted"]

RemoveSource(files, f, flag) ==
    IF flag THEN [files EXCEPT ![f] = "deleted"] ELSE files

CleanInit ==
    /\ DriverIdle
    /\ ToolIdle
    /\ archives \in [gz : GzFiles, zip : ZipFiles]
    /\ delete_flags \in DeleteConfigs
    /\ stage_fs = [gz |-> "present", zip |-> "present", csv |-> "missing", pq |-> "missing"]
    /\ extract_status = [noaa |-> "pending", flight |-> "pending"]
    /\ raw_flight = <<>>
    /\ raw_noaa = <<>>
    /\ flight_df = <<>>
    /\ flight_step = "load"
    /\ processed_flight = Missing
    /\ noaa_status = "loaded"
    /\ processed_noaa = Missing

\* extract_file (extract_noaa_data.py lines 37-75): the csv file is opened for
\* writing, the records are copied, then the .gz file is deleted; an exception
\* of the copy is logged, and leaves what was copied so far
ExtractNoaa ==
    /\ extract_status.noaa = "pending"
    /\ raw_noaa' = SubSeq(archives.gz.records, 1, archives.gz.readable)
    /\ IF archives.gz.corrupt
       THEN /\ stage_fs' = [stage_fs EXCEPT !.csv = "partial"]
            /\ extract_status' = [extract_status EXCEPT !.noaa = "error"]
       ELSE /\ stage_fs' = RemoveSource([stage_fs EXCEPT !.csv = "written"], "gz",
                                       delete_flags.gz)
            /\ extract_status' = [extract_status EXCEPT !.noaa = "done"]
    /\ UNCHANGED <<drivervars, toolvars, raw_flight, flight_df, flight_step, processed_flight,
                   noaa_status, processed_noaa, archives, delete_flags>>

\* extract_parquet_files (extract_flight_data.py lines 35-88).  A file that is
\* not a zip file raises before the loop; the handler then reads the loop
\* variable `file`, which is not bound, and that exception leaves the function
\* and ends the script through future.result().
ExtractFlight ==
    /\ extract_status.noaa # "pending"
    /\ extract_status.flight = "pending"
    /\ CASE archives.zip.kind = "ok" ->
              /\ raw_flight' = archives.zip.rows
              /\ stage_fs' = RemoveSource([stage_fs EXCEPT !.pq = "written"], "zip",
                                         delete_flags.zip)
              /\ extract_status' = [extract_status EXCEPT !.flight = "done"]
         [] archives.zip.kind = "no_parquet" ->
              /\ extract_status' = [extract_status EXCEPT !.flight = "skipped"]
              /\ UNCHANGED <<raw_flight, stage_fs>>
         [] archives.zip.kind = "bad_member" ->
              /\ stage_fs' = [stage_fs EXCEPT !.pq = "empty"]
              /\ extract_status' = [extract_status EXCEPT !.flight = "error"]
              /\ UNCHANGED raw_flight
         [] archives.zip.kind = "bad_zip" ->
              /\ extract_status' = [extract_status EXCEPT !.flight = "crashed"]
              /\ UNCHANGED <<raw_flight, stage_fs>>
    /\ UNCHANGED <<drivervars, toolvars, flight_df, flight_step, processed_flight, raw_noaa,
                   noaa_status, processed_noaa, archives, delete_flags>>

\* clean_noaa_file: the frame is written, then the csv file is deleted; an
\* exception is logged and no file is written
CleanNoaa ==
    /\ extract_status.flight \in {"done", "skipped", "error"}
    /\ noaa_status = "loaded"
    /\ IF NoaaRaises(raw_noaa)
       THEN noaa_status' = "error" /\ UNCHANGED <<processed_noaa, stage_fs>>
       ELSE /\ noaa_status' = "saved"
            /\ processed_noaa' = File(CleanNoaaFile(raw_noaa))
            /\ stage_fs' = RemoveSource(stage_fs, "csv", delete_flags.csv)
    /\ UNCHANGED <<drivervars, toolvars, raw_flight, flight_df, flight_step, processed_flight,
                   raw_noaa, archives, delete_flags, extract_status>>

\* the step that follows a step of clean_flight_file, then to_parquet
FlightStepAfter(name) ==
    LET i == CHOOSE i \in 1..Len(FlightSteps) : FlightSteps[i] = name
    IN IF i < Len(FlightSteps) THEN FlightSteps[i + 1] ELSE "save"

\* process_flight_data.py: with no parquet file in the directory nothing is
\* done; df = pd.read_parquet(file_path, columns=KEEP_COLUMNS) raises on a file
\* that holds nothing
LoadFlight ==
    /\ flight_step = "load"
    /\ noaa_status \in {"saved", "error"}
    /\ CASE stage_fs.pq = "missing" -> flight_step' = "no_files" /\ UNCHANGED flight_df
         [] stage_fs.pq = "empty" -> flight_step' = "error" /\ UNCHANGED flight_df
         [] stage_fs.pq = "written" -> flight_df' = raw_flight /\ flight_step' = FlightSteps[1]
    /\ UNCHANGED <<drivervars, toolvars, raw_flight, processed_flight, raw_noaa, noaa_status,
                   processed_noaa, archives, delete_flags, stage_fs, extract_status>>

\* what every step of clean_flight_file leaves alone
FlightStepFrame ==
    UNCHANGED <<drivervars, toolvars, raw_flight, processed_flight, raw_noaa, noaa_status,
                processed_noaa, archives, delete_flags, stage_fs, extract_status>>

StepUndersampleDelays ==
    /\ flight_step = "undersample_delays"
    /\ IF UndersampleRaises(flight_df)
       THEN flight_step' = "error" /\ flight_df' = <<>>
       ELSE /\ flight_df' = UndersampleDelays(flight_df)
            /\ flight_step' = FlightStepAfter("undersample_delays")
    /\ FlightStepFrame

StepConvertFlightDate ==
    /\ flight_step = "convert_flight_date"
    /\ IF \E i \in 1..Len(flight_df) : ToDatetimeRaises(flight_df[i].FlightDate)
       THEN flight_step' = "error" /\ flight_df' = <<>>
       ELSE /\ flight_df' = ConvertFlightDate(flight_df)
            /\ flight_step' = FlightStepAfter("convert_flight_date")
    /\ FlightStepFrame

StepCategorizeAirtime ==
    /\ flight_step = "categorize_airtime"
    /\ flight_df' = CategorizeAirtime(flight_df)
    /\ flight_step' = FlightStepAfter("categorize_airtime")
    /\ FlightStepFrame

StepCategorizeDistance ==
    /\ flight_step = "categorize_distance"
    /\ flight_df' = CategorizeDistance(flight_df)
    /\ flight_step' = FlightStepAfter("categorize_distance")
    /\ FlightStepFrame

StepCategorizeTimeOfDay ==
    /\ flight_step = "categorize_time_of_day"
    /\ flight_df' = CategorizeTimeOfDay(flight_df)
    /\ flight_step' = FlightStepAfter("categorize_time_of_day")
    /\ FlightStepFrame

StepConvertMilitaryTime ==
    /\ flight_step = "convert_military_time"
    /\ flight_df' = ConvertMilitaryTime(flight_df)
    /\ flight_step' = FlightStepAfter("convert_military_time")
    /\ FlightStepFrame

StepAddCyclicalFeatures ==
    /\ flight_step = "add_cyclical_features"
    /\ flight_df' = AddCyclicalFeatures(flight_df)
    /\ flight_step' = FlightStepAfter("add_cyclical_features")
    /\ FlightStepFrame

StepAddHolidayIndicators ==
    /\ flight_step = "add_holiday_indicators"
    /\ flight_df' = AddHolidayIndicators(flight_df)
    /\ flight_step' = FlightStepAfter("add_holiday_indicators")
    /\ FlightStepFrame

StepAddWeekendIndicator ==
    /\ flight_step = "add_weekend_indicator"
    /\ flight_df' = AddWeekendIndicator(flight_df)
    /\ flight_step' = FlightStepAfter("add_weekend_indicator")
    /\ FlightStepFrame

StepAddWorkingIndicator ==
    /\ flight_step = "add_working_indicator"
    /\ flight_df' = AddWorkingIndicator(flight_df)
    /\ flight_step' = FlightStepAfter("add_working_indicator")
    /\ FlightStepFrame

\* df.to_parquet(save_path, index=False); del df; then the extracted parquet
\* file is deleted
SaveFlight ==
    /\ flight_step = "save"
    /\ processed_flight' = File(flight_df)
    /\ flight_df' = <<>>
    /\ flight_step' = "saved"
    /\ stage_fs' = RemoveSource(stage_fs, "pq", delete_flags.pq)
    /\ UNCHANGED <<drivervars, toolvars, raw_flight, raw_noaa, noaa_status, processed_noaa,
                   archives, delete_flags, extract_status>>

CleanNext ==
    \/ ExtractNoaa
    \/ ExtractFlight
    \/ CleanNoaa
    \/ LoadFlight
    \/ StepUndersampleDelays
    \/ StepConvertFlightDate
    \/ StepCategorizeAirtime
    \/ StepCategorizeDistance
    \/ StepCategorizeTimeOfDay
    \/ StepConvertMilitaryTime
    \/ StepAddCyclicalFeatures
    \/ StepAddHolidayIndicators
    \/ StepAddWeekendIndicator
    \/ StepAddWorkingIndicator
    \/ SaveFlight

CleanSpec == CleanInit /\ [][CleanNext]_vars

\* ------------------------------------------------------------------------
\* utils/config_loader.py: load_yaml_files on a list of YAML files
\* ------------------------------------------------------------------------
\* A YAML value is a scalar or a mapping of nested keys to scalars; a document
\* is None (an empty file) or a mapping of top-level keys to values.
Scalar(v) == [kind |-> "scalar", v |-> v, m |-> <<>>]

Mapping(m) == [kind |-> "map", v |-> "", m |-> m]

NoneDoc == [kind |-> "none", m |-> <<>>]

Doc(m) == [kind |-> "map", m |-> m]

TopKeys == {"paths", "overall"}

NestedKeys == {"a", "b"}

ScalarValues == {"1", "2"}

NestedMappings == UNION {[K -> ScalarValues] : K \in SUBSET NestedKeys}

YamlValues == {Scalar(v) : v \in ScalarValues} \cup {Mapping(m) : m \in NestedMappings}

\* yaml.safe_load(file) of the files the call may be given
YamlDocs ==
    {NoneDoc} \cup {Doc(m) : m \in UNION {[K -> YamlValues] : K \in SUBSET TopKeys}}

MaxFiles == 2

\* if config: (None and the empty mapping are false)
Truthy(config) == config.kind = "map" /\ DOMAIN config.m # {}

\* dict.update: the keys of other replace those of d, whole values at a time
DictUpdateMutant(d, other) == d @@ other

DictUpdate(d, other) == other @@ d

LoaderInit ==
    /\ DriverIdle
    /\ CleanIdle
    /\ PipelineIdle
    /\ file_paths \in UNION {[1..n -> YamlDocs] : n \in 0..MaxFiles}
    /\ merged_config = <<>>
    /\ files_read = 0
    /\ loader_pc = "loop"

\* one turn of the loop for path in file_paths (lines 5-9)
LoadYamlFile ==
    /\ loader_pc = "loop"
    /\ files_read < Len(file_paths)
    /\ LET config == file_paths[files_read + 1]
       IN merged_config' =
             IF Truthy(config) THEN DictUpdate(merged_config, config.m) ELSE merged_config
    /\ files_read' = files_read + 1
    /\ UNCHANGED <<drivervars, cleanvars, pipelinevars, file_paths, loader_pc>>

\* return merged_config (line 10)
ReturnConfig ==
    /\ loader_pc = "loop"
    /\ files_read = Len(file_paths)
    /\ loader_pc' = "returned"
    /\ UNCHANGED <<drivervars, cleanvars, pipelinevars, file_paths, merged_config, files_read>>

LoaderNext ==
    \/ LoadYamlFile
    \/ ReturnConfig

LoaderSpec == LoaderInit /\ [][LoaderNext]_vars

\* ------------------------------------------------------------------------
\* pipeline.py: the command line, run_step, run_data_steps, train_models, and
\* the start of ml_processing/train.py
\* ------------------------------------------------------------------------
\* data_steps of run_data_steps (pipeline.py lines 41-49)
data_steps ==
    << "python src/data_processing/download_flight_data.py",
       "python src/data_processing/download_noaa_data.py",
       "python src/data_processing/extract_noaa_data.py",
       "python src/data_processing/extract_flight_data.py",
       "python src/data_processing/process_noaa_data.py",
       "python src/data_processing/process_flight_data.py",
       "python src/data_processing/final_data.py" >>

\* choices of --model in train.py (lines 149-154)
ModelChoices ==
    <<"lin_reg", "log_reg", "hgb_reg", "hgb_clf", "sgd_reg", "sgd_clf", "mlp_reg", "mlp_clf">>

\* list(config["models"].keys())
AVAILABLE_MODELS == ModelChoices

\* get_model_list for "all" and for the name of one model
GetModelList(selection) ==
    IF selection = "all" THEN AVAILABLE_MODELS ELSE <<selection>>

\* a command line given to run_step
DataCommand(script) == [script |-> script, model |-> "", base |-> FALSE]

\* f"python src/ml_processing/train.py --model {model} {base_flag}"
TrainCommand(model, base) ==
    [script |-> "python src/ml_processing/train.py", model |-> model, base |-> base]

\* argparse: add_argument on a parser whose conflict handler is "error" raises
\* when the option string is taken
EmptyParser == [options |-> {}, raised |-> FALSE]

AddArgument(parser, option) ==
    IF parser.raised THEN parser
    ELSE IF option \in parser.options THEN [parser EXCEPT !.raised = TRUE]
    ELSE [parser EXCEPT !.options = @ \cup {option}]

\* the parser of train.py: --model (line 145), --base (line 168), --base (line 173)
TrainParser ==
    AddArgument(AddArgument(AddArgument(EmptyParser, "--model"), "--base"), "--base")

\* train.py run as a script: the calls of train_model it makes and its exit
\* status, where fit is the exit status of a run that reaches train_model
TrainScript(model, base, fit) ==
    IF TrainParser.raised THEN [calls |-> <<>>, returncode |-> 1]
    ELSE IF \A i \in 1..Len(ModelChoices) : ModelChoices[i] # model
         THEN [calls |-> <<>>, returncode |-> 2]
    ELSE [calls |-> <<[model |-> model, base |-> base]>>, returncode |-> fit]

\* a call made by __main__: run_data_steps, or train_models(selection, base)
DataPhase == [kind |-> "data", selection |-> "", base |-> FALSE]

TrainPhase(selection, base) == [kind |-> "train", selection |-> selection, base |-> base]

\* __main__ (lines 131-138): run_pipeline is run_data_steps and then
\* train_models("all", base=False)
Phases(a) ==
    (IF a.run THEN <<DataPhase, TrainPhase("all", FALSE)>> ELSE <<>>)
    \o (IF a.data THEN <<DataPhase>> ELSE <<>>)
    \o (IF a.train # "none" THEN <<TrainPhase(a.train, a.base)>> ELSE <<>>)

ReturnCodes == {0, 1, 2}

Selections == {"none", "all", "lin_reg", "mlp_clf"}

PipelineInit ==
    /\ DriverIdle
    /\ CleanIdle
    /\ LoaderIdle
    /\ args \in [run : BOOLEAN, data : BOOLEAN, train : Selections, base : BOOLEAN]
    /\ phase_i = 0
    /\ loop_i = 0
    /\ started = <<>>
    /\ train_calls = <<>>
    /\ pl_log = <<>>
    /\ pl_exit = -1

Running == pl_exit = -1 /\ phase_i < Len(Phases(args))

CurrentPhase == Phases(args)[phase_i + 1]

\* one turn of "for step in data_steps: run_step(step)"
RunDataStep ==
    /\ Running
    /\ CurrentPhase.kind = "data"
    /\ loop_i < Len(data_steps)
    /\ \E returncode \in ReturnCodes :
          /\ started' = Append(started, [phase |-> phase_i + 1,
                                         command |-> DataCommand(data_steps[loop_i + 1]),
                                         returncode |-> returncode])
          /\ IF RunStepExits(returncode)
             THEN pl_exit' = 1 /\ UNCHANGED loop_i
             ELSE loop_i' = loop_i + 1 /\ UNCHANGED pl_exit
    /\ UNCHANGED <<drivervars, cleanvars, loadervars, args, phase_i, train_calls, pl_log>>

\* one turn of "for model in models: train_model(model, base=base)"
TrainModel ==
    /\ Running
    /\ CurrentPhase.kind = "train"
    /\ loop_i < Len(GetModelList(CurrentPhase.selection))
    /\ \E fit \in {0, 1} :
          LET model == GetModelList(CurrentPhase.selection)[loop_i + 1]
              script == TrainScript(model, CurrentPhase.base, fit)
          IN /\ started' = Append(started, [phase |-> phase_i + 1,
                                            command |-> TrainCommand(model, CurrentPhase.base),
                                            returncode |-> script.returncode])
             /\ train_calls' = train_calls \o script.calls
             /\ IF RunStepExits(script.returncode)
                THEN pl_exit' = 1 /\ UNCHANGED loop_i
                ELSE loop_i' = loop_i + 1 /\ UNCHANGED pl_exit
    /\ UNCHANGED <<drivervars, cleanvars, loadervars, args, phase_i, pl_log>>

\* the loop of the current call is over: run_data_steps logs its last message
\* (lines 57-58), and the call returns
PhaseCompleted ==
    /\ Running
    /\ loop_i = IF CurrentPhase.kind = "data" THEN Len(data_steps)
                ELSE Len(GetModelList(CurrentPhase.selection))
    /\ pl_log' = IF CurrentPhase.kind = "data"
                 THEN Append(pl_log, "Data processing completed successfully!")
                 ELSE pl_log
    /\ phase_i' = phase_i + 1
    /\ loop_i' = 0
    /\ UNCHANGED <<drivervars, cleanvars, loadervars, args, started, train_calls, pl_exit>>

\* the end of __main__
MainEnds ==
    /\ pl_exit = -1
    /\ phase_i = Len(Phases(args))
    /\ pl_exit' = 0
    /\ UNCHANGED <<drivervars, cleanvars, loadervars, args, phase_i, loop_i, started,
                   train_calls, pl_log>>

PipelineNext ==
    \/ RunDataStep
    \/ TrainModel
    \/ PhaseCompleted
    \/ MainEnds

PipelineSpec == PipelineInit /\ [][PipelineNext]_vars

\* ------------------------------------------------------------------------
\* Properties
\* ------------------------------------------------------------------------
HasMatch(station, day, weather) ==
    \E k \in 1..Len(weather) : weather[k].STATION = station /\ weather[k].DATE = day

Kept(f, df) == \E k \in 1..Len(df) : df[k].Year = f.Year /\ df[k].row = f.row

\* C1: a flight row of the year's flight table is in the merged table exactly
\* when a weather row has STATION = Origin and DATE = FlightDate, or a weather
\* row has STATION = Dest and DATE = FlightDate.
C1_KeptIffMatched ==
    \A y \in YEARS :
        result[y].ret = "df" =>
            LET flights == input[y].flight.rows
                weather == input[y].weather.rows
            IN \A i \in 1..Len(flights) :
                  Kept(flights[i], result[y].df)
                      <=> \/ HasMatch(flights[i].Origin, flights[i].FlightDate, weather)
                          \/ HasMatch(flights[i].Dest, flights[i].FlightDate, weather)

\* a merged year in which one flight matched on the origin side only, one on
\* the destination side only, and one on neither side and was dropped
C1_Witness ==
    \E y \in YEARS :
        /\ result[y].ret = "df"
        /\ LET flights == input[y].flight.rows
               weather == input[y].weather.rows
           IN /\ \E i \in 1..Len(flights) :
                    /\ HasMatch(flights[i].Origin, flights[i].FlightDate, weather)
                    /\ ~HasMatch(flights[i].Dest, flights[i].FlightDate, weather)
                    /\ Kept(flights[i], result[y].df)
              /\ \E i \in 1..Len(flights) :
                    /\ ~HasMatch(flights[i].Origin, flights[i].FlightDate, weather)
                    /\ HasMatch(flights[i].Dest, flights[i].FlightDate, weather)
                    /\ Kept(flights[i], result[y].df)
              /\ \E i \in 1..Len(flights) : ~Kept(flights[i], result[y].df)

Mergeable(y) == input[y].flight.exists /\ input[y].weather.exists /\ ~malformed[y]

RangeOf(s) == {s[i] : i \in 1..Len(s)}

\* C5: a year whose flight or weather file is missing, or whose read or join
\* raises, makes merge_flight_weather return None without raising; the driver
\* does not stop in the merge stage and collects the table of every other year.
C5_FailureIsolated ==
    /\ \A y \in YEARS :
          task[y] = "finished" =>
              /\ result[y].ret \in {"None", "df"}
              /\ ~Mergeable(y) => result[y].ret = "None"
              /\ Mergeable(y) => result[y].ret = "df"
    /\ pc = "crashed" => collected = YEARS
    /\ RangeOf(merged_years) = {y \in collected : Mergeable(y)}
    /\ pc \in {"collect", "concat"} =>
          /\ Len(merged_dataframes) = Len(merged_years)
          /\ \A k \in 1..Len(merged_years) : merged_dataframes[k] = result[merged_years[k]].df

\* every year was collected, one failed to read or join, another was missing
\* a file, and a third year's table was still collected after them
C5_Witness ==
    /\ collected = YEARS
    /\ \E y \in YEARS : malformed[y]
    /\ \E y \in YEARS : Mergeable(y) /\ y \in RangeOf(merged_years)
                        /\ \E z \in YEARS : z < y /\ ~Mergeable(z)

SourcesRemoved(y) == fs[y] # input[y]

\* C7: the two source files of a year are removed only when the delete flag
\* is set, both files existed and the year's merge query completed; when a
\* file is missing or the merge raises, both files are left as they were.
C7_DeleteOnlyAfterMerge ==
    \A y \in YEARS :
        /\ SourcesRemoved(y) =>
              /\ DELETE_SOURCE_FILES
              /\ input[y].flight.exists /\ input[y].weather.exists
              /\ ~malformed[y]
              /\ result[y].ret = "df"
              /\ fs[y] = [flight |-> Missing, weather |-> Missing]
        /\ (task[y] = "finished" /\ ~Mergeable(y)) => fs[y] = input[y]

\* with the delete flag set, one year's files were removed after its merge and
\* the files of a year whose merge raised are still there
C7_Witness ==
    /\ DELETE_SOURCE_FILES
    /\ \E y \in YEARS : SourcesRemoved(y) /\ result[y].ret = "df"
    /\ \E y \in YEARS : task[y] = "finished" /\ malformed[y] /\ fs[y] = input[y]
                        /\ fs[y].flight.exists /\ fs[y].weather.exists


\* the data of row j replaced by other values: its weather readings on both
\* sides and its departure delay
OtherReading(c) == IF c = Num(99) THEN Num(98) ELSE Num(99)

WithOtherReadings(df, j) ==
    [df EXCEPT ![j] = [@ EXCEPT !.Origin_ = [e \in Elements |-> OtherReading(@[e])],
                                !.Dest_ = [e \in Elements |-> OtherReading(@[e])],
                                !.DepDelayMinutes = OtherReading(@)]]

OriginFeatures == {"weekly_avg_origin", "monthly_avg_origin",
                   "weekly_avg_origin_depdelayminutes", "monthly_avg_origin_depdelayminutes"}
DestFeatures == {"weekly_avg_dest", "monthly_avg_dest"}

\* the rolling features in `fields` that the feature step gives flight f
FeaturesOf(df, f, fields) ==
    LET fe == FeatureEngineer(df)
        k == CHOOSE k \in 1..Len(fe) : fe[k].Year = f.Year /\ fe[k].row = f.row
    IN [c \in fields |-> fe[k][c]]

\* C2: the rolling features of a row of station S and date D are computed only
\* from rows of station S dated strictly before D: the data of a row of another
\* station, or of a row dated D or later (the row itself included), has no
\* effect on them.
C2_RollingUsesOnlyEarlierRows ==
    pc = "rolling" =>
        \A i, j \in 1..Len(final_df) :
            LET f == final_df[i]
                g == final_df[j]
                changed == WithOtherReadings(final_df, j)
            IN /\ (g.Origin # f.Origin \/ g.FlightDate >= f.FlightDate) =>
                      FeaturesOf(changed, f, OriginFeatures) = FeaturesOf(final_df, f, OriginFeatures)
               /\ (g.Dest # f.Dest \/ g.FlightDate >= f.FlightDate) =>
                      FeaturesOf(changed, f, DestFeatures) = FeaturesOf(final_df, f, DestFeatures)

\* a row of the frame with another value in one of the columns the encoder
\* reads: its label or one of its categorical columns
LabelValues == {Num(0), Num(1)}
AirlineValues == {"AA", "DL", "UA", "WN"}

WithOtherCell(df, j, c, v) == [df EXCEPT ![j][c] = v]

CellChanges ==
    {<<"DepDel15", v>> : v \in LabelValues}
        \cup {<<"Airline", v>> : v \in AirlineValues}
        \cup {<<"Origin", v>> : v \in Airports}
        \cup {<<"Dest", v>> : v \in Airports}

TestPositions(n) == {Perm42(n)[i] + 1 : i \in 1..NTest(n)}

\* C3: the encoder is fit on the training partition only: whatever the label
\* and the categorical values of the rows of the test partition, the fitted
\* encoder and the encoded training partition are the same.
C3_EncoderIgnoresTestRows ==
    (pc = "split" /\ ~SplitRaises(final_df) /\ ~EncoderRaises(final_df)) =>
        LET enc == Fit(EncoderFitRows(final_df))
            train == Transform(enc, TrainRows(final_df))
        IN \A j \in TestPositions(Len(final_df)) :
              \A ch \in CellChanges :
                  LET changed == WithOtherCell(final_df, j, ch[1], ch[2])
                  IN /\ ~EncoderRaises(changed)
                     /\ Fit(EncoderFitRows(changed)) = enc
                     /\ TrainTestSplitEncoder(changed).train = train

\* the split has run on a frame with rows in both partitions, and a test row
\* has a label and an encoded airline that differ from those of a training row
C3_Witness ==
    /\ pc = "save_train"
    /\ Len(train_data) > 0
    /\ Len(test_data) > 0
    /\ \E i \in 1..Len(test_data) : \E k \in 1..Len(train_data) :
          /\ test_data[i].DepDel15 # train_data[k].DepDel15
          /\ test_data[i].Airline # train_data[k].Airline


\* The output of the run that collects the years in ascending order and whose
\* merge query returns the rows in the order of the flight file.
RECURSIVE TablesInYearOrder(_)
TablesInYearOrder(y) ==
    IF y > NumYears THEN <<>>
    ELSE (IF Mergeable(y)
          THEN <<MergeQuery(input[y].flight.rows, input[y].weather.rows)>>
          ELSE <<>>) \o TablesInYearOrder(y + 1)

ReferenceOutput ==
    LET sets == TrainTestSplitEncoder(FeatureEngineer(Concat(TablesInYearOrder(1))))
    IN [train |-> File(ToParquet(sets.train)), test |-> File(ToParquet(sets.test))]

\* C4: the train and test sets a run persists depend on the input files only:
\* whatever the order in which the years complete and whatever the order of
\* rows with equal sort key (Origin, FlightDate), the run writes the same two
\* files as the run in year order and file order does.
C4_OutputDeterministic ==
    (pc = "done" /\ out.train.exists /\ out.test.exists) => out = ReferenceOutput


Terminated == pc \in {"done", "crashed"}

RowIds(rows) == {<<rows[i].Year, rows[i].row>> : i \in 1..Len(rows)}

MergedRowIds == UNION {RowIds(result[merged_years[k]].df) : k \in 1..Len(merged_years)}

\* C6: the run ends in failure exactly when no year produced a merged table;
\* when at least one year merged, the run goes through concatenation, feature
\* engineering, split and persistence, and the two files hold the rows of
\* exactly the years that merged.
C6_FailsIffNothingMerged ==
    Terminated =>
        /\ (exit_status # 0) <=> (merged_years = <<>>)
        /\ merged_years # <<>> =>
              /\ out.train.exists /\ out.test.exists
              /\ RowIds(out.train.rows) \cup RowIds(out.test.rows) = MergedRowIds

AllStages == <<"merge", "concat", "rolling", "split", "save_train", "save_test">>

IsPrefix(s, t) == Len(s) <= Len(t) /\ \A i \in 1..Len(s) : s[i] = t[i]

InStages(stage) == \E i \in 1..Len(stages) : stages[i] = stage

HasNull(r) ==
    \/ \E f \in CellFields \cap DOMAIN r : IsNull(r[f])
    \/ \E f \in ElemFields \cap DOMAIN r : \E e \in Elements : IsNull(r[f][e])

\* C9: no row of the persisted train set or test set holds a null in any column.
C9_NoNullPersisted ==
    /\ out.train.exists => \A i \in 1..Len(out.train.rows) : ~HasNull(out.train.rows[i])
    /\ out.test.exists => \A i \in 1..Len(out.test.rows) : ~HasNull(out.test.rows[i])

\* the number of rows of `rows` that are row r of the input of the split: the
\* same index label and the same value in every column that is not encoded
Copies(rows, r) ==
    Cardinality({k \in 1..Len(rows) :
        \A f \in DOMAIN r \ cat_cols : rows[k][f] = r[f]})

\* C10: train_test_split_encoder partitions its input: every row of the input
\* frame is in exactly one of the train set and the test set, once, and the two
\* sets hold no other row.
C10_SplitPartitions ==
    [][(pc = "split" /\ pc' = "save_train") =>
          /\ Len(train_data') + Len(test_data') = Len(final_df)
          /\ \A i \in 1..Len(final_df) :
                /\ Copies(train_data' \o test_data', final_df[i]) = 1
                /\ Copies(final_df, final_df[i]) = 1
          /\ \A k \in 1..Len(train_data') : \A j \in 1..Len(test_data') :
                train_data'[k].index # test_data'[j].index]_vars

\* the split has just run on a frame of two years and produced a train set and
\* a test set of several rows each
C10_Witness ==
    /\ pc = "save_train"
    /\ Len(merged_years) = NumYears
    /\ Len(train_data) >= 2
    /\ Len(test_data) >= 2


ClassCount(rows, v) == Cardinality({i \in 1..Len(rows) : rows[i].DepDel15 = v})

\* C11: the split is stratified on DepDel15 with test fraction 0.2: of the c
\* rows of each label value, between floor(c/5) and ceil(c/5) are in the test
\* set.
C11_SplitStratified ==
    pc = "save_train" =>
        \A v \in LabelValues :
            LET t == ClassCount(test_data, v)
                c == t + ClassCount(train_data, v)
            IN c \div 5 <= t /\ t <= (c + 4) \div 5

NumericColumns == {"DepDelayMinutes", "weekly_avg_origin_depdelayminutes",
                   "monthly_avg_origin_depdelayminutes"}

ColumnOf(rows, f) == [i \in 1..Len(rows) |-> rows[i][f]]

SquareOf(c) == Frac(c[1] * c[1], c[2] * c[2])

\* a column with mean 0 and standard deviation 1 (or constant 0)
Standardized(col) ==
    /\ \A i \in 1..Len(col) : ~IsNull(col[i])
    /\ SumCells(col) = Num(0)
    /\ \/ \A i \in 1..Len(col) : col[i] = Num(0)
       \/ SumCells([i \in 1..Len(col) |-> SquareOf(col[i])]) = Num(Len(col))

\* C12: the numeric columns of the train set are standardized with the mean
\* and standard deviation of the train rows (so each has mean 0 and standard
\* deviation 1 there), and the values of the rows that land in the test set
\* have no effect on the train set.
C12_StandardizedOnTrainOnly ==
    /\ pc = "save_train" => \A f \in NumericColumns : Standardized(ColumnOf(train_data, f))
    /\ (pc = "split" /\ ~SplitRaises(final_df) /\ ~EncoderRaises(final_df)) =>
          \A j \in TestPositions(Len(final_df)) :
              TrainTestSplitEncoder(WithOtherReadings(final_df, j)).train
                  = TrainTestSplitEncoder(final_df).train

WeatherMatches(station, day, weather) ==
    {k \in 1..Len(weather) : weather[k].STATION = station /\ weather[k].DATE = day}

AllNull(m) == \A e \in Elements : IsNull(m[e])

C15_FeaturePerStationDay ==
    pc = "split" =>
        \A i, j \in 1..Len(final_df) :
            LET a == final_df[i]
                b == final_df[j]
            IN /\ (a.Origin = b.Origin /\ a.FlightDate = b.FlightDate) =>
                      /\ a.weekly_avg_origin = b.weekly_avg_origin
                      /\ a.monthly_avg_origin = b.monthly_avg_origin
               /\ (a.Dest = b.Dest /\ a.FlightDate = b.FlightDate) =>
                      /\ a.weekly_avg_dest = b.weekly_avg_dest
                      /\ a.monthly_avg_dest = b.monthly_avg_dest

\* the columns the frame has before the rolling averages are added
InputColumns == {"DepDelayMinutes", "DepDel15", "Origin_", "Dest_"}

\* C16: the backward and forward fill that follows the rolling computations
\* changes the rolling-average columns only: every row leaves the step with the
\* DepDelayMinutes, DepDel15 and raw Origin_ / Dest_ weather values, nulls
\* included, that it entered it with.
C16_FillKeepsInputColumns ==
    [][(pc = "rolling" /\ pc' = "split") =>
          \A i \in 1..Len(final_df) : \A k \in 1..Len(final_df') :
              (final_df'[k].Year = final_df[i].Year /\ final_df'[k].row = final_df[i].row) =>
                  \A f \in InputColumns : final_df'[k][f] = final_df[i][f]]_vars


\* the rows of the merged table that come from flight f of the flight file
CopiesOfFlight(merged, f) == Cardinality({k \in 1..Len(merged) : merged[k].row = f.row})

RawRowOf(r) == raw_flight[CHOOSE i \in 1..Len(raw_flight) : raw_flight[i].row = r.row]

\* a raw value hhmm that is a time of day: 0 <= hh < 24 and 0 <= mm < 60
ValidMilitary(t) ==
    ~IsNull(t) /\ t[1] >= 0 /\ t[1] \div 100 < 24 /\ t[1] % 100 < 60

\* C17: after convert_military_time, CRSDepTime and CRSArrTime of every row
\* are 60*hh + mm, a number in 0..1439, when the raw value hhmm is a valid time
\* of day, and null when it is not.
C17_MinutesOrNull ==
    flight_step = "add_cyclical_features" =>
        \A i \in 1..Len(flight_df) : \A c \in {"CRSDepTime", "CRSArrTime"} :
            LET t == RawRowOf(flight_df[i])[c]
                v == flight_df[i][c]
            IN IF ValidMilitary(t)
               THEN /\ v = Num((60 * (t[1] \div 100)) + (t[1] % 100))
                    /\ v[1] >= 0 /\ v[1] <= 1439
               ELSE IsNull(v)

\* the bucket of a value between thresholds lo and hi
BucketOf(v, thresholds) ==
    LET below == {k \in 1..Len(thresholds) : thresholds[k] <= v[1]}
    IN IF below = {} THEN "0"
       ELSE IF Cardinality(below) = 1 THEN "1"
       ELSE IF Cardinality(below) = 2 THEN "2" ELSE "3"

\* C18: the three categorize steps give a value in range the bucket of its
\* thresholds, and give a null, a negative air time or distance, and a
\* scheduled departure that is not a valid time of day, the category "Unknown".
C18_BucketsOrUnknown ==
    flight_step = "convert_military_time" =>
        \A i \in 1..Len(flight_df) :
            LET r == flight_df[i]
            IN /\ r.AirTimeCategory =
                     IF IsNull(r.AirTime) \/ r.AirTime[1] < 0 THEN "Unknown"
                     ELSE BucketOf(r.AirTime, <<120, 360>>)
               /\ r.DistanceCategory =
                     IF IsNull(r.Distance) \/ r.Distance[1] < 0 THEN "Unknown"
                     ELSE BucketOf(r.Distance, <<500, 2500>>)
               /\ r.TimeofDay =
                     IF ~ValidMilitary(r.CRSDepTime) THEN "Unknown"
                     ELSE BucketOf(r.CRSDepTime, <<600, 1200, 1800>>)

\* the holidays of the year of a date and of the years before and after it
HolidaysAround(date) ==
    UNION {USHolidays(y) : y \in (YearOf(date) - 1)..(YearOf(date) + 1)}

\* C19: Near_Holiday is 1 exactly when a holiday lies within 3 days before or
\* after FlightDate, and Holiday_Indicator is 1 exactly when FlightDate is a
\* holiday.
C19_HolidayFlags ==
    flight_step = "add_weekend_indicator" =>
        \A i \in 1..Len(flight_df) :
            LET r == flight_df[i]
            IN /\ (r.Near_Holiday = 1) <=>
                     \E h \in HolidaysAround(r.FlightDate) :
                         h - r.FlightDate \in (0 - days_window)..days_window
               /\ (r.Holiday_Indicator = 1) <=> r.FlightDate \in HolidaysAround(r.FlightDate)

\* Saturday and Sunday in the numbering of DayOfWeekOf
WeekendDays == {6, 7}

\* C20: Weekend_Indicator is 1 exactly when the row's DayOfWeek denotes
\* Saturday or Sunday in the numbering of the flight data, in which the
\* DayOfWeek of a row is the day of the week of its FlightDate.
C20_WeekendIsSaturdaySunday ==
    flight_step = "add_working_indicator" =>
        \A i \in 1..Len(flight_df) :
            LET r == flight_df[i]
            IN /\ r.DayOfWeek = Num(DayOfWeekOf(r.FlightDate))
               /\ (r.Weekend_Indicator = 1) <=> (r.DayOfWeek[1] \in WeekendDays)


\* the key-by-key merge of two mappings that also merges two nested mappings
\* of one top-level key key by key
DeepUpdate(d, other) ==
    [k \in DOMAIN d \cup DOMAIN other |->
        IF k \notin DOMAIN other THEN d[k]
        ELSE IF k \notin DOMAIN d THEN other[k]
        ELSE IF d[k].kind = "map" /\ other[k].kind = "map"
             THEN Mapping(other[k].m @@ d[k].m)
        ELSE other[k]]

RECURSIVE DeepMerge(_, _)
DeepMerge(files, n) ==
    IF n = 0 THEN <<>>
    ELSE IF files[n].kind = "map" THEN DeepUpdate(DeepMerge(files, n - 1), files[n].m)
    ELSE DeepMerge(files, n - 1)

\* C21: the mapping load_yaml_files returns has every key of every file; a key
\* takes the value of the last file that defines it, and the nested keys of an
\* earlier file under a top-level key that a later file defines as well are
\* kept unless the later file redefines them.
C21_MergesKeyByKey ==
    loader_pc = "returned" => merged_config = DeepMerge(file_paths, Len(file_paths))


\* C22: when the driver is about to write train_data.parquet, the first of the
\* two output files, the directory SAVE_DIR it writes into exists: the program
\* has created it if it did not exist when the program started.
C22_SaveDirCreated ==
    pc = "save_train" => SAVE_DIR \in dirs


\* the rows of a frame whose column key has value k are in date order
GroupInDateOrder(df, key, k) ==
    \A i, j \in 1..Len(df) :
        (i < j /\ df[i][key] = k /\ df[j][key] = k) => df[i].FlightDate <= df[j].FlightDate

\* C23: the frame the rolling windows have run over, which the rolling step
\* leaves in the order it sorted it into, has the rows of every Origin group
\* and the rows of every Dest group in non-decreasing FlightDate order.
C23_GroupsInDateOrder ==
    (InStages("rolling") /\ final_df # <<>>) =>
        /\ \A k \in Airports : GroupInDateOrder(final_df, "Origin", k)
        /\ \A k \in Airports : GroupInDateOrder(final_df, "Dest", k)


\* the commands run in the n-th call of __main__, in the order they were run
StartedIn(n) == SelectSeq(started, LAMBDA c : c.phase = n)

\* C24: the commands of a run of run_data_steps are the first commands of
\* data_steps, in their order; every command but the last one run has returned
\* 0; and once a command has returned another code the process has ended with
\* exit status 1 and that command is the last one run, so no later data command
\* and no training command was started.
C24_DataStepsInOrder ==
    /\ \A n \in 1..Len(Phases(args)) :
          Phases(args)[n].kind = "data" =>
              /\ Len(StartedIn(n)) <= Len(data_steps)
              /\ \A i \in 1..Len(StartedIn(n)) :
                    StartedIn(n)[i].command = DataCommand(data_steps[i])
    /\ \A i \in 1..Len(started) : i < Len(started) => started[i].returncode = 0
    /\ \A i \in 1..Len(started) :
          started[i].returncode # 0 => pl_exit = 1 /\ i = Len(started)

\* under --run the third data command has returned a code other than 0: the
\* process has ended with status 1 after three commands
C24_Witness ==
    /\ args.run
    /\ Len(started) = 3
    /\ started[3].returncode # 0
    /\ started[3].command = DataCommand(data_steps[3])
    /\ pl_exit = 1


\* res keeps every delayed row of df, has as many on-time rows as delayed
\* rows, and is made of distinct rows of df
Balanced(df, res) ==
    /\ \A i \in 1..Len(df) :
          df[i].DepDel15 = Num(1) => \E k \in 1..Len(res) : res[k] = df[i]
    /\ Len(OnTimeFlights(res)) = Len(DelayedFlights(res))
    /\ \A k \in 1..Len(res) : \E i \in 1..Len(df) : res[k] = df[i]
    /\ \A k, l \in 1..Len(res) : res[k].row = res[l].row => k = l

\* C25: the undersample_delays step turns every table into a table that keeps
\* every delayed row and has as many on-time rows as delayed rows, each a
\* distinct row of the input.
C25_UndersampleBalances ==
    [][flight_step = "undersample_delays" =>
          /\ flight_step' = FlightStepAfter("undersample_delays")
          /\ Balanced(flight_df, flight_df')]_vars


\* the output of the stage that reads input f has been completely written
OutputWritten(f) ==
    CASE f = "gz" -> stage_fs.csv = "written"
      [] f = "zip" -> stage_fs.pq = "written"
      [] f = "csv" -> processed_noaa.exists
      [] f = "pq" -> processed_flight.exists

\* the output of the stage that reads input f exists, or the next stage has
\* deleted it after writing its own output
OutputKept(f) ==
    \/ OutputWritten(f)
    \/ f = "gz" /\ stage_fs.csv = "deleted" /\ processed_noaa.exists
    \/ f = "zip" /\ stage_fs.pq = "deleted" /\ processed_flight.exists

TrainRuns == SelectSeq(started, LAMBDA c : c.command = TrainCommand(c.command.model, c.command.base))

\* C27: every run of train.py with --model m, with or without --base, has
\* called train_model(m, base) once, with base true exactly when --base was
\* given; and a call of train_models that has returned has run train.py for
\* every model of its selection, in order.
C27_TrainScriptCallsTrainModel ==
    /\ Len(train_calls) = Len(TrainRuns)
    /\ \A i \in 1..Len(TrainRuns) :
          i <= Len(train_calls) =>
              train_calls[i] = [model |-> TrainRuns[i].command.model,
                                base |-> TrainRuns[i].command.base]
    /\ \A n \in 1..phase_i :
          Phases(args)[n].kind = "train" =>
              [i \in 1..Len(StartedIn(n)) |-> StartedIn(n)[i].command.model]
                  = GetModelList(Phases(args)[n].selection)

PersistedRowIds ==
    (IF out.train.exists THEN RowIds(out.train.rows) ELSE {})
        \cup (IF out.test.exists THEN RowIds(out.test.rows) ELSE {})

\* C28: at the end of a run with source deletion enabled, every year whose
\* processed flight file or weather file has been deleted has its merged rows
\* in the persisted train and test files.
C28_NoDataLostBySourceDeletion ==
    (Terminated /\ DELETE_SOURCE_FILES) =>
        \A y \in YEARS :
            (input[y].flight.exists /\ ~fs[y].flight.exists)
                \/ (input[y].weather.exists /\ ~fs[y].weather.exists)
            => RowIds(MergeQuery(input[y].flight.rows, input[y].weather.rows))
                   \subseteq PersistedRowIds

\* C29: the pipeline logs "Data processing completed successfully!" only if
\* the final-data step has persisted both the train file and the test file; a
\* run in which no year was merged does not reach that message.
C29_SuccessMessageOnlyAfterPersist ==
    (\E i \in 1..Len(pl_log) : pl_log[i] = "Data processing completed successfully!")
        => out.train.exists /\ out.test.exists

HasObservations(station) ==
    \E a \in 1..Len(raw_noaa) :
        /\ raw_noaa[a].STATION = station
        /\ raw_noaa[a].ELEMENT \in CORE_ELEMENTS
        /\ ~IsNull(raw_noaa[a].VALUE)

\* C30: once the weather file of a year is written, every airport of the
\* station mapping whose closest station has observations in the raw NOAA file
\* has weather rows under its own code, also when another airport has the same
\* closest station.
C30_EveryAirportGetsWeather ==
    noaa_status = "saved" =>
        \A k \in 1..Len(StationKey) :
            HasObservations(StationKey[k].Closest_Station) =>
                \E i \in 1..Len(processed_noaa.rows) :
                    processed_noaa.rows[i].STATION = StationKey[k].Airport

====
